---------------------------- MODULE Spec2Model ----------------------------
(***************************************************************************)
(* A model of the Zork agent scaffold of webllm-sandbox: the structured    *)
(* memory (ZorkMemory) and the exploration policy (ZorkPolicy).            *)
(*                                                                         *)
(* Representation.                                                         *)
(*  - A string that the code treats as a command, an object name or an     *)
(*    inventory item is a sequence of words (single-space separated); a    *)
(*    word is spelled, letter by letter, by Spell.  Room names are only    *)
(*    ever compared for equality and stay atomic strings.                  *)
(*  - A value that may be null is a sequence of length 0 (Null) or 1.      *)
(*  - A game text is represented by what the regular expressions of        *)
(*    extractState / updateAfterCommand / detectLeads find in it (record   *)
(*    fields room, exits, objects, marks), see GameOutputs.                *)
(*  - Map<string, RoomInfo> is a sequence of room records in insertion     *)
(*    order; Map<string, number> is a function on the set of its keys.     *)
(*  Fields no operation of the model reads (score, moves, description,     *)
(*  objectsOfInterest, currentPlan, lastGameOutput) are left out.          *)
(***************************************************************************)
EXTENDS Integers, Sequences, FiniteSets, TLC

VARIABLES
    currentTurn,        \* ZorkMemory.currentTurn
    lastCommands,       \* shortTerm.lastCommands : rolling window of CommandResult
    stuckCount,         \* shortTerm.stuckCount
    noChangeTurns,      \* shortTerm.noChangeTurns
    forbiddenCommands,  \* shortTerm.forbiddenCommands : command -> turns until allowed
    gameSummary,        \* shortTerm.gameSummary
    lastSummaryTurn,    \* shortTerm.lastSummaryTurn
    rooms,              \* longTerm.rooms, in insertion order
    unresolvedLeads,    \* longTerm.unresolvedLeads
    globalInventory,    \* longTerm.globalInventory, in insertion order
    lastState,          \* ZorkMemory.lastState : Null or <<GameState>>
    probe,              \* the caller's note of the calls it has made
    isInitialized,      \* ZorkPlayer state isInitialized
    isRunning,          \* ZorkPlayer state isRunning
    stopRef,            \* stopRef.current
    gameLog,            \* ZorkPlayer state gameLog, without the 'thinking' entries
    runs,               \* the invocations of handleStart / handleStep in progress
    turnsBegun,         \* number of getLLMCommand invocations so far
    zork                \* zorkRef.current: the ZorkService, its I/O device and engine

vars == <<currentTurn, lastCommands, stuckCount, noChangeTurns, forbiddenCommands,
          gameSummary, lastSummaryTurn, rooms, unresolvedLeads, globalInventory,
          lastState, probe, isInitialized, isRunning, stopRef, gameLog, runs,
          turnsBegun, zork>>

memory == <<currentTurn, lastCommands, stuckCount, noChangeTurns, forbiddenCommands,
            gameSummary, lastSummaryTurn, rooms, unresolvedLeads, globalInventory,
            lastState>>

player == <<isInitialized, isRunning, stopRef, gameLog, runs, turnsBegun, zork>>

-----------------------------------------------------------------------------
(* Bounds of the model.                                                    *)

\* updateAfterCommand calls explored by Spec
MaxTurns == 2
\* updateAfterCommand calls explored by SpecLoop
MaxLoopTurns == 6
\* updateAfterCommand calls explored by SpecDecay
MaxDecayTurns == 5
\* largest N of forbidCommand(c, N) explored by SpecDecay
MaxForbidTurns == 3
\* Spec calls forbidCommand while the forbidden map holds fewer commands than this
MaxForbidden == 2
\* updateAfterCommand calls explored by SpecLeads
MaxLeadTurns == 2
\* updateAfterCommand calls explored by SpecReads
MaxReadTurns == 2
\* rounds of reads the caller of SpecReads makes in a row
MaxReads == 2
\* updateAfterCommand calls explored by SpecWindow
MaxWindowTurns == 12
\* updateAfterCommand calls explored by SpecClassify
MaxClassifyTurns == 2
\* updateAfterCommand calls between two resets explored by SpecLife
MaxLifeTurns == 3
\* invocations of handleStart / handleStep that can be in progress together
MaxRuns == 2
\* getLLMCommand invocations explored by SpecPlayer
MaxPlayerTurns == 2
\* getLLMCommand invocations explored by SpecSession
MaxSessionTurns == 6

\* the turns a long session may begin
MaxLongTurns == 13

\* the turns a session with the Stop button may begin
MaxStopTurns == 6

\* the commands passed to ZorkService.sendCommand
MaxEngineCommands == 4

-----------------------------------------------------------------------------
(* Nullable values and small sequence helpers.                             *)

Null == <<>>

Some(x) == <<x>>

Min(a, b) == IF a < b THEN a ELSE b

Max(a, b) == IF a > b THEN a ELSE b

Range(s) == {s[i] : i \in 1..Len(s)}

Includes(s, x) == \E i \in 1..Len(s) : s[i] = x

\* s.slice(-n)
SliceLast(s, n) == SubSeq(s, Max(1, Len(s) - n + 1), Len(s))

\* s.slice(0, n)
SliceFirst(s, n) == SubSeq(s, 1, Min(n, Len(s)))

\* push x unless already included
PushNew(s, x) == IF Includes(s, x) THEN s ELSE Append(s, x)

RECURSIVE MergeInto(_, _)
MergeInto(s, more) ==
    IF more = <<>> THEN s ELSE MergeInto(PushNew(s, Head(more)), Tail(more))

RECURSIVE Flatten(_)
Flatten(ss) == IF ss = <<>> THEN <<>> ELSE Head(ss) \o Flatten(Tail(ss))

\* the sequence without its elements equal to x
Without(s, x) == SelectSeq(s, LAMBDA y : y # x)

-----------------------------------------------------------------------------
(* Strings: words and their spelling.                                      *)

\* the letters of each word of the vocabulary
SpellTable ==
    ("N" :> <<"N">>)
    @@ ("S" :> <<"S">>)
    @@ ("E" :> <<"E">>)
    @@ ("W" :> <<"W">>)
    @@ ("U" :> <<"U">>)
    @@ ("D" :> <<"D">>)
    @@ ("NE" :> <<"N", "E">>)
    @@ ("NW" :> <<"N", "W">>)
    @@ ("SE" :> <<"S", "E">>)
    @@ ("SW" :> <<"S", "W">>)
    @@ ("UP" :> <<"U", "P">>)
    @@ ("DOWN" :> <<"D", "O", "W", "N">>)
    @@ ("ENTER" :> <<"E", "N", "T", "E", "R">>)
    @@ ("WEST" :> <<"W", "E", "S", "T">>)
    @@ ("GO" :> <<"G", "O">>)
    @@ ("LOOK" :> <<"L", "O", "O", "K">>)
    @@ ("look" :> <<"l", "o", "o", "k">>)
    @@ ("INVENTORY" :> <<"I", "N", "V", "E", "N", "T", "O", "R", "Y">>)
    @@ ("EXAMINE" :> <<"E", "X", "A", "M", "I", "N", "E">>)
    @@ ("X" :> <<"X">>)
    @@ ("TAKE" :> <<"T", "A", "K", "E">>)
    @@ ("DROP" :> <<"D", "R", "O", "P">>)
    @@ ("OPEN" :> <<"O", "P", "E", "N">>)
    @@ ("DOOR" :> <<"D", "O", "O", "R">>)
    @@ ("UNLOCK" :> <<"U", "N", "L", "O", "C", "K">>)
    @@ ("WITH" :> <<"W", "I", "T", "H">>)
    @@ ("PUSH" :> <<"P", "U", "S", "H">>)
    @@ ("PULL" :> <<"P", "U", "L", "L">>)
    @@ ("MOVE" :> <<"M", "O", "V", "E">>)
    @@ ("READ" :> <<"R", "E", "A", "D">>)
    @@ ("TURN" :> <<"T", "U", "R", "N">>)
    @@ ("ON" :> <<"O", "N">>)
    @@ ("MAILBOX" :> <<"M", "A", "I", "L", "B", "O", "X">>)
    @@ ("LAMP" :> <<"L", "A", "M", "P">>)
    @@ ("KEY" :> <<"K", "E", "Y">>)
    @@ ("EGG" :> <<"E", "G", "G">>)
    @@ ("OF" :> <<"O", "F">>)
    @@ ("NORTH" :> <<"N", "O", "R", "T", "H">>)
    @@ ("OK" :> <<"O", "K">>)

Vocabulary == DOMAIN SpellTable

Spell(w) == SpellTable[w]

Alphabet ==
    << <<"A", "a">>, <<"B", "b">>, <<"C", "c">>, <<"D", "d">>, <<"E", "e">>,
       <<"F", "f">>, <<"G", "g">>, <<"H", "h">>, <<"I", "i">>, <<"J", "j">>,
       <<"K", "k">>, <<"L", "l">>, <<"M", "m">>, <<"N", "n">>, <<"O", "o">>,
       <<"P", "p">>, <<"Q", "q">>, <<"R", "r">>, <<"S", "s">>, <<"T", "t">>,
       <<"U", "u">>, <<"V", "v">>, <<"W", "w">>, <<"X", "x">>, <<"Y", "y">>,
       <<"Z", "z">> >>

UpperChar(c) ==
    IF \E i \in 1..Len(Alphabet) : Alphabet[i][2] = c
    THEN Alphabet[CHOOSE i \in 1..Len(Alphabet) : Alphabet[i][2] = c][1]
    ELSE c

LowerChar(c) ==
    IF \E i \in 1..Len(Alphabet) : Alphabet[i][1] = c
    THEN Alphabet[CHOOSE i \in 1..Len(Alphabet) : Alphabet[i][1] = c][2]
    ELSE c

\* the word of the vocabulary spelled by the letters cs
WordOf(cs) == CHOOSE v \in Vocabulary : Spell(v) = cs

\* each word in upper case
UpperWord ==
    [w \in Vocabulary |-> WordOf([k \in 1..Len(Spell(w)) |-> UpperChar(Spell(w)[k])])]

\* the letters of each word in lower case
LowerLetters ==
    [w \in Vocabulary |-> [k \in 1..Len(Spell(w)) |-> LowerChar(Spell(w)[k])]]

\* String.prototype.toUpperCase, word by word
ToUpperCase(str) == [i \in 1..Len(str) |-> UpperWord[str[i]]]

\* the letters of str.toLowerCase(), word by word
LowerSpell(str) == [i \in 1..Len(str) |-> LowerLetters[str[i]]]

\* cs begins with the letters pre
LettersStartWith(cs, pre) ==
    Len(cs) >= Len(pre) /\ SubSeq(cs, 1, Len(pre)) = pre

\* the letters sub occur in cs, contiguously
LettersInclude(cs, sub) ==
    \E k \in 0..(Len(cs) - Len(sub)) : SubSeq(cs, k + 1, k + Len(sub)) = sub

\* str.startsWith(verb), verb a single word without a trailing space
StartsWith(str, verb) ==
    Len(str) >= 1 /\ LettersStartWith(Spell(str[1]), Spell(verb))

\* str.startsWith(verb + ' ') for a trimmed str
StartsWithWord(str, verb) == Len(str) >= 2 /\ str[1] = verb

\* str.replace(verb + ' ', '').trim() for a str that starts with verb
StripVerb(str, verb) == IF StartsWithWord(str, verb) THEN Tail(str) ELSE str

\* str.charAt(0)
CharAt0(str) == IF str = <<>> THEN "" ELSE Spell(str[1])[1]

RECURSIVE SumLen(_)
SumLen(str) == IF str = <<>> THEN 0 ELSE Len(Spell(Head(str))) + SumLen(Tail(str))

\* str.length
StrLength(str) == IF str = <<>> THEN 0 ELSE SumLen(str) + Len(str) - 1

\* a lower-case regular expression of alternatives, tested with /i on str
MatchesAny(str, alternatives) ==
    \E i \in 1..Len(str) : \E a \in alternatives : LettersInclude(LowerSpell(str)[i], a)

-----------------------------------------------------------------------------
(* Program constants.                                                      *)

\* the rolling window keeps this many CommandResults
WindowSize == 10
\* detectLoops looks at this many of them
LoopWindow == 6
\* a failed command is put in the forbidden map with this counter
FailureForbidTurns == 10
\* the no-change streak that counts as stuck
StuckThreshold == 3
\* forbidCommand's default number of turns
DefaultForbidTurns == 6

MOVEMENT_COMMANDS ==
    {"N", "S", "E", "W", "NE", "NW", "SE", "SW", "UP", "DOWN", "U", "D",
     "ENTER", "EXIT", "IN", "OUT", "CLIMB"}

\* the keys of DIRECTION_MAP
DIRECTION_MAP ==
    {"N", "NORTH", "S", "SOUTH", "E", "EAST", "W", "WEST", "NE", "NORTHEAST",
     "NW", "NORTHWEST", "SE", "SOUTHEAST", "SW", "SOUTHWEST", "UP", "U", "DOWN", "D",
     "ENTER", "IN", "EXIT", "OUT"}

\* DIRECTION_MAP[word]
DirectionOf(word) ==
    CASE word \in {"N", "NORTH"} -> "north"
      [] word \in {"S", "SOUTH"} -> "south"
      [] word \in {"E", "EAST"} -> "east"
      [] word \in {"W", "WEST"} -> "west"
      [] word \in {"NE", "NORTHEAST"} -> "northeast"
      [] word \in {"NW", "NORTHWEST"} -> "northwest"
      [] word \in {"SE", "SOUTHEAST"} -> "southeast"
      [] word \in {"SW", "SOUTHWEST"} -> "southwest"
      [] word \in {"UP", "U"} -> "up"
      [] word \in {"DOWN", "D"} -> "down"
      [] word \in {"ENTER", "IN"} -> "enter"
      [] word \in {"EXIT", "OUT"} -> "exit"

\* ZorkPolicy's MOVEMENT list
MOVEMENT == <<"N", "S", "E", "W", "NE", "NW", "SE", "SW", "UP", "DOWN">>

DefaultExits == <<"N", "S", "E", "W">>

UnknownRoom == "Unknown"

-----------------------------------------------------------------------------
(* Game texts.  A text is the record of what the code's regular            *)
(* expressions find in it:                                                 *)
(*   room    : <<name>> when the first line passes the room-name test of   *)
(*             extractState, Null otherwise                                *)
(*   exits   : the first letters of the direction words found, in order,   *)
(*             without repetition                                          *)
(*   objects : the object names found, upper-cased, without repetition     *)
(*   marks   : which of the keyword patterns match                         *)
(*     "failure" the failure pattern of updateAfterCommand                 *)
(*     "taken"   /taken|you have/        "opened" /opens|opened|opening/   *)
(*     "locked"  /locked/                "closed" /closed/                 *)
(*     "container" /closed (mailbox|chest|box|door|case|container)/        *)
(*     "puzzle"  /(puzzle|mechanism|lever|button|switch)/                  *)
(*     "dark", "danger", "treasure", "writing" the other clue patterns     *)

GameText(room, exits, objects, marks) ==
    [room |-> room, exits |-> exits, objects |-> objects, marks |-> marks]

\* "West of House / You see a mailbox. Paths lead north and south."
TextWestOfHouse ==
    GameText(Some("West of House"), <<"N", "S">>, << <<"MAILBOX">> >>, {})

\* "Cellar / You see a lamp. You see a key. The door to the west is locked."
TextCellar ==
    GameText(Some("Cellar"), <<"W">>, << <<"LAMP">>, <<"KEY">> >>, {"locked"})

\* "You can't go that way."
TextCantGo == GameText(Null, <<>>, <<>>, {"failure"})

\* "You are now carrying the key. Taken."
TextTaken == GameText(Null, <<>>, <<>>, {"taken"})

\* "You see a mailbox. It is a closed container with a small lever, and it is dark."
TextClosedLever ==
    GameText(Null, <<>>, << <<"MAILBOX">> >>, {"closed", "container", "puzzle", "dark"})

\* "You are still waiting."
TextQuiet == GameText(Null, <<>>, <<>>, {})

\* "You are in luck: the mailbox opens."
TextOpened == GameText(Null, <<>>, <<>>, {"opened"})

\* '' : what playTurn passes on when the log holds no 'game' entry
NoText == GameText(Null, <<>>, <<>>, {})

\* "Error: Error: LLM request failed" : the entry playTurn logs when a turn throws
TextError == GameText(Some("Error: Error: LLM request failed"), <<>>, <<>>, {})

\* the order in which extractState tests the clue patterns
ClueOrder == <<"locked", "closed", "dark", "danger", "treasure", "writing">>

-----------------------------------------------------------------------------
(* ZorkMemory.                                                             *)

\* the GameState extractState builds from a text, given this.lastState
ExtractedState(gameOutput, last) ==
    [currentRoom |->
        IF gameOutput.room # Null THEN gameOutput.room[1]
        ELSE IF last # Null THEN last[1].currentRoom ELSE UnknownRoom,
     exits |-> IF Len(gameOutput.exits) > 0 THEN gameOutput.exits ELSE DefaultExits,
     visibleObjects |-> gameOutput.objects,
     inventory |-> IF last # Null THEN last[1].inventory ELSE <<>>,
     notableClues |-> SelectSeq(ClueOrder, LAMBDA k : k \in gameOutput.marks)]

\* a classification that looks at LOOK / INVENTORY / EXAMINE before the failure
\* pattern
ClassifyResultInfoFirst(command, gameOutput, prevState, newState) ==
    IF command = <<"LOOK">> \/ command = <<"INVENTORY">> \/ StartsWith(command, "EXAMINE")
    THEN "progress"
    ELSE IF "failure" \in gameOutput.marks THEN "failure"
    ELSE IF prevState # Null /\ newState.currentRoom # prevState[1].currentRoom
         THEN "progress"
    ELSE IF StartsWith(command, "TAKE") /\ "taken" \in gameOutput.marks THEN "progress"
    ELSE IF StartsWith(command, "OPEN") /\ "opened" \in gameOutput.marks THEN "progress"
    ELSE "no-change"

\* the result type updateAfterCommand gives the command
ClassifyResult(command, gameOutput, prevState, newState) ==
    IF "failure" \in gameOutput.marks THEN "failure"
    ELSE IF prevState # Null /\ newState.currentRoom # prevState[1].currentRoom
         THEN "progress"
    ELSE IF StartsWith(command, "TAKE") /\ "taken" \in gameOutput.marks THEN "progress"
    ELSE IF StartsWith(command, "OPEN") /\ "opened" \in gameOutput.marks THEN "progress"
    ELSE IF command = <<"LOOK">> \/ command = <<"INVENTORY">>
            \/ StartsWith(command, "EXAMINE")
         THEN "progress"
    ELSE "no-change"

\* a window that is cut one entry too late
PushCommandLate(window, entry) ==
    IF Len(window) + 1 > WindowSize + 1 THEN Tail(Append(window, entry))
    ELSE Append(window, entry)

\* lastCommands.push(...), then shift() when longer than the window
PushCommand(window, entry) ==
    IF Len(window) + 1 > WindowSize THEN Tail(Append(window, entry))
    ELSE Append(window, entry)

NonProgress(result) == result = "no-change" \/ result = "failure"

\* a streak that counts no-change results only
NextNoChangeTurnsNoFailure(streak, result) ==
    IF result = "no-change" THEN streak + 1 ELSE 0

NextNoChangeTurns(streak, result) == IF NonProgress(result) THEN streak + 1 ELSE 0

\* a count of the times the streak arrives at the threshold
NextStuckCountOnArrival(count, streak, result) ==
    IF NonProgress(result) /\ streak + 1 = StuckThreshold THEN count + 1 ELSE count

NextStuckCount(count, streak, result) ==
    IF NonProgress(result) /\ streak + 1 >= StuckThreshold THEN count + 1 ELSE count

\* Map.set
MapSet(m, k, v) == [x \in (DOMAIN m) \cup {k} |-> IF x = k THEN v ELSE m[x]]

EmptyMap == [x \in {} |-> 0]

\* "Update forbidden commands": a failed command is forbidden
ForbidFailed(m, command, result) ==
    IF result = "failure" THEN MapSet(m, command, FailureForbidTurns) ELSE m

\* a decay that drops an entry one call later, when its counter has reached 0
DecayForbiddenAtZero(m) == [c \in {k \in DOMAIN m : ~(m[k] <= 0)} |-> m[c] - 1]

\* "Decay forbidden commands"
DecayForbidden(m) == [c \in {k \in DOMAIN m : ~(m[k] <= 1)} |-> m[c] - 1]

\* the index of the room named name in rooms, 0 when there is none
RoomIndex(rs, name) ==
    IF \E i \in 1..Len(rs) : rs[i].name = name
    THEN CHOOSE i \in 1..Len(rs) : rs[i].name = name
    ELSE 0

NewRoom(state) ==
    [name |-> state.currentRoom, exits |-> state.exits, triedExits |-> {},
     objects |-> state.visibleObjects, examinedObjects |-> {}, takenObjects |-> {},
     visitCount |-> 0]

\* what updateRoomInfo does to the record of the current room
VisitRoom(room, state, lastCommand) ==
    LET cmdUpper == ToUpperCase(lastCommand)
        isMove == Len(cmdUpper) = 1
                  /\ (cmdUpper[1] \in MOVEMENT_COMMANDS \/ cmdUpper[1] \in DIRECTION_MAP)
        isExamine == StartsWithWord(cmdUpper, "EXAMINE") \/ StartsWithWord(cmdUpper, "X")
        isTake == StartsWithWord(cmdUpper, "TAKE")
    IN  [room EXCEPT
            !.visitCount = @ + 1,
            !.exits = MergeInto(@, state.exits),
            !.objects = MergeInto(@, state.visibleObjects),
            !.triedExits = IF isMove THEN @ \cup {CharAt0(cmdUpper)} ELSE @,
            !.examinedObjects = IF isExamine THEN @ \cup {Tail(cmdUpper)} ELSE @,
            !.takenObjects = IF isTake THEN @ \cup {Tail(cmdUpper)} ELSE @]

\* a room graph that keeps the record of the current room only
updateRoomInfoCurrentOnly(rs, state, lastCommand) ==
    LET i == RoomIndex(rs, state.currentRoom)
    IN  IF i = 0 THEN <<VisitRoom(NewRoom(state), state, lastCommand)>>
        ELSE <<VisitRoom(rs[i], state, lastCommand)>>

updateRoomInfo(rs, state, lastCommand) ==
    LET i == RoomIndex(rs, state.currentRoom)
    IN  IF i = 0 THEN Append(rs, VisitRoom(NewRoom(state), state, lastCommand))
        ELSE [rs EXCEPT ![i] = VisitRoom(@, state, lastCommand)]

\* "Update inventory if changed"
NextInventory(inv, command, result) ==
    LET afterTake == IF StartsWith(command, "TAKE") /\ result = "progress"
                     THEN PushNew(inv, StripVerb(command, "TAKE")) ELSE inv
    IN  IF StartsWith(command, "DROP") /\ result = "progress"
        THEN Without(afterTake, StripVerb(command, "DROP")) ELSE afterTake

InventoryChanged(command, result) ==
    result = "progress" /\ (StartsWith(command, "TAKE") \/ StartsWith(command, "DROP"))

Lead(room, description, type) ==
    [room |-> room, description |-> description, type |-> type]

\* a lookup with room and type exchanged
hasLeadSwapped(leads, room, type) ==
    \E i \in 1..Len(leads) : leads[i].room = type /\ leads[i].type = room

hasLead(leads, room, type) ==
    \E i \in 1..Len(leads) : leads[i].room = room /\ leads[i].type = type

AddLead(leads, present, room, description, type) ==
    IF present /\ ~hasLead(leads, room, type)
    THEN Append(leads, Lead(room, description, type)) ELSE leads

\* a detectLeads that also keeps a hazard lead for a dark place
detectLeadsWithHazard(leads, state, gameOutput) ==
    LET l1 == AddLead(leads, "locked" \in gameOutput.marks, state.currentRoom,
                      "Locked door or container", "locked")
        l2 == AddLead(l1, "container" \in gameOutput.marks, state.currentRoom,
                      "Closed container to open", "container")
        l3 == AddLead(l2, "puzzle" \in gameOutput.marks, state.currentRoom,
                      "Puzzle or mechanism to solve", "puzzle")
    IN  AddLead(l3, "dark" \in gameOutput.marks, state.currentRoom,
                "Dark place", "hazard")

detectLeads(leads, state, gameOutput) ==
    LET l1 == AddLead(leads, "locked" \in gameOutput.marks, state.currentRoom,
                      "Locked door or container", "locked")
        l2 == AddLead(l1, "container" \in gameOutput.marks, state.currentRoom,
                      "Closed container to open", "container")
    IN  AddLead(l2, "puzzle" \in gameOutput.marks, state.currentRoom,
                "Puzzle or mechanism to solve", "puzzle")

\* new ZorkService(): no VM and no I/O device yet.  The I/O device's
\* inputResolver is kept as a flag, the output buffer as the sequence of the
\* outputs written (0 for the boot text, n for the output to the nth command);
\* executing is the command the engine is working on, inputs the lines it has
\* read, call the initialize or sendCommand in progress and results what the
\* calls have returned, in order
NewZork ==
    [isInitialized |-> FALSE, turnCount |-> 0, outputBuffer |-> <<>>,
     inputResolver |-> FALSE, executing |-> <<>>, written |-> FALSE,
     inputs |-> <<>>, call |-> <<>>, results |-> <<>>]

\* an invocation slot of handleStart / handleStep.  pc is the await the
\* invocation is suspended at ("idle": no invocation).  initialized and
\* gameOutput are the isInitialized and the last 'game' entry of the render whose
\* playTurn the handler closed over; prevState, loop, isNewLocation, answer and
\* command are the locals of getLLMCommand / playTurn; window is Null while the
\* local lastCommands still is the memory's array, and holds the old array once
\* reset() has replaced it.
IdleRun ==
    [pc |-> "idle", kind |-> "none", initialized |-> FALSE, gameOutput |-> NoText,
     prevState |-> Null, loop |-> Null, isNewLocation |-> FALSE, window |-> Null,
     answer |-> Null, command |-> Null]

\* the fields as the constructor of ZorkMemory sets them
Constructed ==
    /\ currentTurn = 0
    /\ lastCommands = <<>>
    /\ stuckCount = 0
    /\ noChangeTurns = 0
    /\ forbiddenCommands = EmptyMap
    /\ gameSummary = ""
    /\ lastSummaryTurn = 0
    /\ rooms = <<>>
    /\ unresolvedLeads = <<>>
    /\ globalInventory = <<>>
    /\ lastState = Null

TypeOK ==
    /\ currentTurn \in Nat
    /\ noChangeTurns \in Nat
    /\ stuckCount \in Nat
    /\ Len(lastCommands) <= WindowSize

Init ==
    /\ currentTurn = 0
    /\ lastCommands = <<>>
    /\ stuckCount = 0
    /\ noChangeTurns = 0
    /\ forbiddenCommands = EmptyMap
    /\ gameSummary = ""
    /\ lastSummaryTurn = 0
    /\ rooms = <<>>
    /\ unresolvedLeads = <<>>
    /\ globalInventory = <<>>
    /\ lastState = Null
    /\ probe = Null
    /\ isInitialized = FALSE
    /\ isRunning = FALSE
    /\ stopRef = FALSE
    /\ gameLog = <<>>
    /\ runs = [p \in 1..MaxRuns |-> IdleRun]
    /\ turnsBegun = 0
    /\ zork = NewZork

\* extractState(gameOutput): returns the state and keeps it as lastState
extractState(gameOutput) ==
    /\ lastState' = Some(ExtractedState(gameOutput, lastState))
    /\ UNCHANGED <<currentTurn, lastCommands, stuckCount, noChangeTurns,
                   forbiddenCommands, gameSummary, lastSummaryTurn, rooms,
                   unresolvedLeads, globalInventory>>

\* updateAfterCommand(command, gameOutput, prevState)
updateAfterCommand(command, gameOutput, prevState) ==
    LET extracted == ExtractedState(gameOutput, lastState)
        result == ClassifyResult(command, gameOutput, prevState, extracted)
        inventory == NextInventory(globalInventory, command, result)
        newState == IF InventoryChanged(command, result)
                    THEN [extracted EXCEPT !.inventory = inventory]
                    ELSE extracted
    IN  /\ currentTurn' = currentTurn + 1
        /\ lastCommands' = PushCommand(lastCommands,
               [command |-> command, result |-> result, turn |-> currentTurn + 1])
        /\ noChangeTurns' = NextNoChangeTurns(noChangeTurns, result)
        /\ stuckCount' = NextStuckCount(stuckCount, noChangeTurns, result)
        /\ forbiddenCommands' =
               DecayForbidden(ForbidFailed(forbiddenCommands, command, result))
        /\ rooms' = updateRoomInfo(rooms, extracted, command)
        /\ globalInventory' = inventory
        /\ unresolvedLeads' = detectLeads(unresolvedLeads, extracted, gameOutput)
        /\ lastState' = Some(newState)
        /\ UNCHANGED <<gameSummary, lastSummaryTurn>>

resolveLead(room, type) ==
    /\ unresolvedLeads' =
           SelectSeq(unresolvedLeads, LAMBDA l : ~(l.room = room /\ l.type = type))
    /\ UNCHANGED <<currentTurn, lastCommands, stuckCount, noChangeTurns,
                   forbiddenCommands, gameSummary, lastSummaryTurn, rooms,
                   globalInventory, lastState>>

isForbidden(command) == command \in DOMAIN forbiddenCommands

forbidCommand(command, turns) ==
    /\ forbiddenCommands' = MapSet(forbiddenCommands, command, turns)
    /\ UNCHANGED <<currentTurn, lastCommands, stuckCount, noChangeTurns,
                   gameSummary, lastSummaryTurn, rooms, unresolvedLeads,
                   globalInventory, lastState>>

\* a reset that replaces shortTerm and longTerm and forgets the fields kept
\* beside them
resetTermsOnly ==
    /\ lastCommands' = <<>>
    /\ stuckCount' = 0
    /\ noChangeTurns' = 0
    /\ forbiddenCommands' = EmptyMap
    /\ gameSummary' = ""
    /\ lastSummaryTurn' = 0
    /\ rooms' = <<>>
    /\ unresolvedLeads' = <<>>
    /\ globalInventory' = <<>>
    /\ UNCHANGED <<currentTurn, lastState>>

reset ==
    /\ currentTurn' = 0
    /\ lastCommands' = <<>>
    /\ stuckCount' = 0
    /\ noChangeTurns' = 0
    /\ forbiddenCommands' = EmptyMap
    /\ gameSummary' = ""
    /\ lastSummaryTurn' = 0
    /\ rooms' = <<>>
    /\ unresolvedLeads' = <<>>
    /\ globalInventory' = <<>>
    /\ lastState' = Null

-----------------------------------------------------------------------------
(* ZorkMemory: the read operations.                                        *)

getState == lastState

Commands(window) == [i \in 1..Len(window) |-> window[i].command]

\* a scan that looks at the last pair only
RepeatAtLastPair(cmds, i) == IF i > 1 /\ cmds[i] = cmds[i - 1] THEN i ELSE 0

\* the largest i > 1 with cmds[i] = cmds[i - 1], scanning down from i; 0 if none
RECURSIVE RepeatAt(_, _)
RepeatAt(cmds, i) ==
    IF i <= 1 THEN 0
    ELSE IF cmds[i] = cmds[i - 1] THEN i
    ELSE RepeatAt(cmds, i - 1)

\* a comparison of neighbours in place of every other entry
AlternatesAdjacent(last4) ==
    /\ last4[1] = last4[2]
    /\ last4[3] = last4[4]
    /\ last4[1] # last4[3]

Alternates(last4) ==
    /\ last4[1] = last4[3]
    /\ last4[2] = last4[4]
    /\ last4[1] # last4[2]

NoLoop == [isLooping |-> FALSE, pattern |-> "none", suggestion |-> <<>>]

Loop(pattern, suggestion) ==
    [isLooping |-> TRUE, pattern |-> pattern, suggestion |-> suggestion]

\* detectLoops() on a window and a no-change streak
LoopOf(window, streak) ==
    LET cmds == Commands(SliceLast(window, LoopWindow))
        r == RepeatAt(cmds, Len(cmds))
        last4 == SliceLast(cmds, 4)
    IN  IF r > 0 THEN Loop("repeat", <<"repeated", cmds[r]>>)
        ELSE IF Len(cmds) >= 4 /\ Alternates(last4)
             THEN Loop("alternation", <<"Alternating", last4[1], last4[2]>>)
        ELSE IF streak >= StuckThreshold
             THEN Loop("stuck", <<"Multiple turns with no progress">>)
        ELSE NoLoop

detectLoops == LoopOf(lastCommands, noChangeTurns)

CurrentRoomIndex == IF lastState = Null THEN 0 ELSE RoomIndex(rooms, lastState[1].currentRoom)

getUntriedExits ==
    IF lastState = Null THEN <<>>
    ELSE IF CurrentRoomIndex = 0 THEN lastState[1].exits
    ELSE LET room == rooms[CurrentRoomIndex]
         IN  SelectSeq(room.exits, LAMBDA e : e \notin room.triedExits)

\* the objects getUnexaminedObjects keeps of a room
Unexamined(room) ==
    SelectSeq(room.objects,
              LAMBDA o : o \notin room.examinedObjects /\ o \notin room.takenObjects)

getUnexaminedObjects ==
    IF lastState = Null THEN <<>>
    ELSE IF CurrentRoomIndex = 0 THEN lastState[1].visibleObjects
    ELSE Unexamined(rooms[CurrentRoomIndex])

getCurrentRoomLeads ==
    IF lastState = Null THEN <<>>
    ELSE SelectSeq(unresolvedLeads, LAMBDA l : l.room = lastState[1].currentRoom)

\* toPromptFormat(): the values the prompt text is put together from
toPromptFormat ==
    IF lastState = Null THEN <<"No state available">>
    ELSE LET state == lastState[1]
             recent == SliceLast(lastCommands, 5)
         IN  <<state.currentRoom, state.exits, getUntriedExits, state.visibleObjects,
               getUnexaminedObjects, globalInventory, state.notableClues,
               [i \in 1..Len(recent) |-> <<recent[i].command, recent[i].result>>],
               DOMAIN forbiddenCommands, detectLoops,
               [i \in 1..Len(getCurrentRoomLeads) |-> getCurrentRoomLeads[i].description],
               Len(rooms)>>

-----------------------------------------------------------------------------
(* ZorkPolicy.                                                             *)

Candidate(command, score, reason) ==
    [command |-> command, score |-> score, reason |-> reason]

KeyWords == {<<"k", "e", "y">>}

ContainerWords ==
    {<<"m", "a", "i", "l", "b", "o", "x">>, <<"c", "h", "e", "s", "t">>,
     <<"b", "o", "x">>, <<"c", "a", "s", "e">>, <<"b", "a", "g">>,
     <<"s", "a", "c", "k">>}

LightWords ==
    {<<"l", "a", "m", "p">>, <<"l", "a", "n", "t", "e", "r", "n">>,
     <<"t", "o", "r", "c", "h">>, <<"l", "i", "g", "h", "t">>}

\* one sequence of actions per element of items, concatenated
ForEach(items, Actions(_)) == Flatten([i \in 1..Len(items) |-> Actions(items[i])])

actionsForLead(lead, state) ==
    CASE lead.type = "locked" ->
            ForEach(SelectSeq(state.inventory, LAMBDA item : MatchesAny(item, KeyWords)),
                    LAMBDA item : << <<"UNLOCK", "DOOR", "WITH">> \o item >>)
            \o << <<"OPEN", "DOOR">> >>
      [] lead.type = "container" ->
            ForEach(SelectSeq(state.visibleObjects,
                              LAMBDA obj : MatchesAny(obj, ContainerWords)),
                    LAMBDA obj : << <<"OPEN">> \o obj, <<"EXAMINE">> \o obj >>)
      [] lead.type = "puzzle" ->
            ForEach(state.visibleObjects,
                    LAMBDA obj : << <<"EXAMINE">> \o obj, <<"PUSH">> \o obj,
                                    <<"PULL">> \o obj, <<"MOVE">> \o obj >>)
      [] lead.type = "hazard" ->
            << <<"LOOK">> >>
            \o ForEach(SelectSeq(state.inventory,
                                 LAMBDA item : MatchesAny(item, LightWords)),
                       LAMBDA item : << <<"TURN", "ON">> \o item >>)
      [] lead.type = "notable" ->
            ForEach(state.visibleObjects,
                    LAMBDA obj : << <<"EXAMINE">> \o obj, <<"READ">> \o obj >>)
      [] OTHER -> <<>>

\* a generation step without the isForbidden filter
AllowedNoFilter(cands) == cands

\* the candidates of a generation step that pass its isForbidden filter
Allowed(cands) == SelectSeq(cands, LAMBDA c : ~isForbidden(c.command))

\* 1. Unresolved leads in current room (+3)
LeadCandidates(leads, state) ==
    Allowed(ForEach(leads, LAMBDA lead :
        LET actions == actionsForLead(lead, state)
        IN  [k \in 1..Len(actions) |->
                Candidate(actions[k], 3, <<"Unresolved lead", <<lead.description>> >>)]))

\* object candidates with TAKE scored 1
ObjectCandidatesTakeOne(unexamined) ==
    Allowed(ForEach(unexamined, LAMBDA obj :
        << Candidate(<<"EXAMINE">> \o obj, 2, <<"Unexamined object", obj>>),
           Candidate(<<"TAKE">> \o obj, 1, <<"Object to collect", obj>>) >>))

\* 2. New objects to examine/take (+2)
ObjectCandidates(unexamined) ==
    Allowed(ForEach(unexamined, LAMBDA obj :
        << Candidate(<<"EXAMINE">> \o obj, 2, <<"Unexamined object", obj>>),
           Candidate(<<"TAKE">> \o obj, 2, <<"Object to collect", obj>>) >>))

\* untried exits scored 3
ExitCandidatesScore3(untriedExits) ==
    Allowed([k \in 1..Len(untriedExits) |->
        Candidate(<<untriedExits[k]>>, 3, <<"Untried exit", <<untriedExits[k]>> >>)])

\* 3. Untried exits (+2)
ExitCandidates(untriedExits) ==
    Allowed([k \in 1..Len(untriedExits) |->
        Candidate(<<untriedExits[k]>>, 2, <<"Untried exit", <<untriedExits[k]>> >>)])

\* 4. Info gathering (+1)
InfoCandidates ==
    Allowed(<< Candidate(<<"LOOK">>, 1, <<"Gather information", <<>> >>),
               Candidate(<<"INVENTORY">>, 1, <<"Check what you are carrying", <<>> >>) >>)

\* 5. Tried exits (fallback, +0)
FallbackCandidates(untriedExits) ==
    Allowed([k \in 1..Len(SelectSeq(MOVEMENT, LAMBDA e : ~Includes(untriedExits, e))) |->
        LET exit == SelectSeq(MOVEMENT, LAMBDA e : ~Includes(untriedExits, e))[k]
        IN  Candidate(<<exit>>, 0, <<"Previously tried exit", <<exit>> >>)])

\* "Apply penalties": -5 if forbidden
Penalized(c) == IF isForbidden(c.command) THEN [c EXCEPT !.score = @ - 5] ELSE c

\* "If stuck, boost info-gathering and untried exits"
Boosted(c, loop, untriedExits) ==
    IF ~loop.isLooping THEN c
    ELSE LET info == IF c.command = <<"LOOK">> \/ c.command = <<"INVENTORY">>
                     THEN 2 ELSE 0
             exit == IF Len(c.command) = 1 /\ Includes(untriedExits, c.command[1])
                     THEN 1 ELSE 0
         IN  [c EXCEPT !.score = @ + info + exit]

\* the candidates in generation order, with their final scores
ScoredCandidates ==
    IF getState = Null THEN <<>>
    ELSE LET state == getState[1]
             untriedExits == getUntriedExits
             loop == detectLoops
             generated == LeadCandidates(getCurrentRoomLeads, state)
                          \o ObjectCandidates(getUnexaminedObjects)
                          \o ExitCandidates(untriedExits)
                          \o InfoCandidates
                          \o FallbackCandidates(untriedExits)
         IN  [k \in 1..Len(generated) |->
                 Boosted(Penalized(generated[k]), loop, untriedExits)]

\* an insertion that puts c before the elements of equal score
RECURSIVE InsertByScoreUnstable(_, _)
InsertByScoreUnstable(s, c) ==
    IF s = <<>> THEN <<c>>
    ELSE IF c.score >= Head(s).score THEN <<c>> \o s
    ELSE <<Head(s)>> \o InsertByScoreUnstable(Tail(s), c)

\* c put into the sorted sequence s, behind every element that does not score less
RECURSIVE InsertByScore(_, _)
InsertByScore(s, c) ==
    IF s = <<>> THEN <<c>>
    ELSE IF c.score > Head(s).score THEN <<c>> \o s
    ELSE <<Head(s)>> \o InsertByScore(Tail(s), c)

\* candidates.sort((a, b) => b.score - a.score): descending, stable
RECURSIVE SortByScore(_)
SortByScore(cands) ==
    IF cands = <<>> THEN <<>>
    ELSE InsertByScore(SortByScore(SubSeq(cands, 1, Len(cands) - 1)), cands[Len(cands)])

generateCandidates == SortByScore(ScoredCandidates)

\* candidates[0], or null when there is none (the list is generated once)
getBestAction ==
    CHOOSE best \in {IF Len(c) = 0 THEN Null ELSE Some(c[1]) : c \in {generateCandidates}} : TRUE

getTopCandidates(n) == SliceFirst(generateCandidates, n)

\* best?.command || 'LOOK'
BestOrLook ==
    CHOOSE command \in {IF best = Null THEN <<"LOOK">> ELSE best[1].command :
                            best \in {getBestAction}} : TRUE

DirectionPrefixes == {<<"U", "P">>, <<"D", "O", "W", "N">>, <<"N">>, <<"S">>, <<"E">>, <<"W">>}

CardinalPrefixes == {<<"N">>, <<"S">>, <<"E">>, <<"W">>}

\* the badPatterns expression, anchored at the start of the command
BadPattern(cmd) ==
    \/ /\ StartsWithWord(cmd, "LOOK")
       /\ \E p \in DirectionPrefixes : LettersStartWith(Spell(cmd[2]), p)
    \/ StartsWithWord(cmd, "GO")
    \/ /\ Len(cmd) >= 2
       /\ cmd[1] \in {"WEST", "NORTH", "SOUTH", "EAST"}
       /\ LettersStartWith(Spell(cmd[2]), <<"O", "F">>)
    \/ /\ StartsWithWord(cmd, "MOVE")
       /\ \E p \in CardinalPrefixes : LettersStartWith(Spell(cmd[2]), p)

MaxCommandLength == 50

MaxCommandWords == 6

validateCommand(command) ==
    LET upperCmd == ToUpperCase(command)
    IN  IF isForbidden(upperCmd)
        THEN [valid |-> FALSE, adjusted |-> BestOrLook, reason |-> "forbidden"]
        ELSE IF BadPattern(upperCmd)
        THEN [valid |-> FALSE, adjusted |-> BestOrLook, reason |-> "invalid pattern"]
        ELSE IF StrLength(upperCmd) > MaxCommandLength \/ Len(upperCmd) > MaxCommandWords
        THEN [valid |-> FALSE, adjusted |-> BestOrLook, reason |-> "too long or complex"]
        ELSE [valid |-> TRUE, adjusted |-> upperCmd, reason |-> "Valid command"]

-----------------------------------------------------------------------------
(* ZorkPlayer: the orchestrator.  The model is ready and LLM mode and      *)
(* autoPlay are on; the engine's initialize and sendCommand succeed.  A     *)
(* handler runs atomically from one await to the next.  The turn numbers   *)
(* of the log entries and the streaming text are display only and left out.*)

RepeatForbidTurns == 10
AlternationForbidTurns == 6
SummaryInterval == 5
AdviceEvery == 3
MaxFormatLength == 40
MaxFormatWords == 6

\* the words the third replace of the cleaning strips from the front
LeadWords == {"I", "YOU", "THE", "MY", "LET", "LETS", "OKAY", "OK", "SURE", "NOW"}

\* the awaits of a turn
TurnPcs == {"summary", "advice", "decide", "send"}

needsSummaryRefresh(interval) == currentTurn - lastSummaryTurn >= interval

setGameSummary(summary) ==
    /\ gameSummary' = summary
    /\ lastSummaryTurn' = currentTurn
    /\ UNCHANGED <<currentTurn, lastCommands, stuckCount, noChangeTurns,
                   forbiddenCommands, rooms, unresolvedLeads, globalInventory,
                   lastState>>

\* getRecentHistory(10) is not ''
getRecentHistory == Len(lastCommands) > 0

\* getExplorationStats() is not ''
getExplorationStats ==
    Len(rooms) > 0 \/ Len(globalInventory) > 0 \/ Len(unresolvedLeads) > 0

LogEntry(type, content) == [type |-> type, content |-> content]

addLogEntry(log, type, content) == Append(log, LogEntry(type, content))

\* prev.filter(e => e.content !== 'Thinking...')
WithoutThinking(log) == SelectSeq(log, LAMBDA e : e.type # "thinking")

\* [...gameLog].reverse().find(e => e.type === 'game')?.content || ''
LastGameOutput(log) ==
    LET games == SelectSeq(log, LAMBDA e : e.type = "game")
    IN  IF Len(games) = 0 THEN NoText ELSE games[Len(games)].content

\* loop forbids for an alternation only
LoopForbidsAlternationOnly(m, loop, window) ==
    LET recent == SliceLast(window, 4)
    IN  IF loop.pattern = "alternation" /\ Len(recent) >= 2
        THEN MapSet(MapSet(m, recent[Len(recent)].command, AlternationForbidTurns),
                    recent[Len(recent) - 1].command, AlternationForbidTurns)
        ELSE m

\* the forbidCommand calls getLLMCommand makes for a detected loop
LoopForbids(m, loop, window) ==
    LET lastCmd == IF Len(window) > 0 THEN Some(window[Len(window)].command) ELSE Null
        repeat == IF loop.pattern = "repeat" /\ lastCmd # Null /\ lastCmd # Some(<<>>)
                  THEN MapSet(m, lastCmd[1], RepeatForbidTurns)
                  ELSE m
        recent == SliceLast(window, 4)
    IN  IF loop.pattern = "alternation" /\ Len(recent) >= 2
        THEN MapSet(MapSet(repeat, recent[Len(recent)].command, AlternationForbidTurns),
                    recent[Len(recent) - 1].command, AlternationForbidTurns)
        ELSE repeat

\* where getLLMCommand goes after the summary: to the reasoner or to the actor
AfterSummary(isNewLocation, loop, window) ==
    IF isNewLocation THEN "decide"
    ELSE IF loop.isLooping THEN "decide"
    ELSE IF Len(window) > 2 /\ Len(window) % AdviceEvery = 0 THEN "advice"
    ELSE "decide"

\* result.content cleaned: upper-cased, one leading filler word stripped
Clean(answer) ==
    LET upper == ToUpperCase(answer)
    IN  IF Len(upper) > 0 /\ upper[1] \in LeadWords THEN Tail(upper) ELSE upper

\* /^[A-Z\s]+$/
OnlyLetters(command) ==
    /\ Len(command) > 0
    /\ \A i \in 1..Len(command) :
           \A c \in Range(Spell(command[i])) : \E k \in 1..Len(Alphabet) : Alphabet[k][1] = c

\* the command without the policy's validation and the format check
FinalCommandUnchecked(answer) == Clean(answer)

\* the command getLLMCommand returns for an answer of the actor
FinalCommand(answer) ==
    LET command == Clean(answer)
        validation == validateCommand(command)
        validated == IF ~validation.valid THEN validation.adjusted ELSE command
    IN  IF \/ StrLength(validated) > MaxFormatLength
           \/ Len(validated) > MaxFormatWords
           \/ ~OnlyLetters(validated)
        THEN BestOrLook
        ELSE validated

\* the render a handler closes over: its playTurn keeps this isInitialized and
\* this gameLog for the whole invocation
Capture(kind) ==
    [IdleRun EXCEPT !.kind = kind, !.initialized = isInitialized,
                    !.gameOutput = LastGameOutput(gameLog)]

\* the local lastCommands of getLLMCommand
LocalWindow(run) == IF run.window = Null THEN lastCommands ELSE run.window[1]

\* a loop that goes on after a turn that failed
NextPcRetry(kind, continueGame, stop) ==
    IF kind = "start" /\ ~stop THEN "delay" ELSE "idle"

\* what the handler does when playTurn has returned continueGame
NextPc(kind, continueGame, stop) ==
    IF kind = "start" /\ continueGame /\ ~stop THEN "delay" ELSE "idle"

AfterTurn(p, continueGame) ==
    LET run == runs[p]
        pc == NextPc(run.kind, continueGame, stopRef)
    IN  /\ runs' = [runs EXCEPT ![p] =
               IF pc = "idle" THEN IdleRun
               ELSE [IdleRun EXCEPT !.pc = pc, !.kind = run.kind,
                                    !.initialized = run.initialized,
                                    !.gameOutput = run.gameOutput]]
        /\ isRunning' = IF pc = "idle" THEN FALSE ELSE isRunning

\* playTurn passes its guard: getLLMCommand up to its first await
BeginTurn(p, run, maxTurns) ==
    LET prevState == getState
        state == ExtractedState(run.gameOutput, lastState)
        loop == detectLoops
        isNewLocation == IF prevState = Null THEN FALSE
                         ELSE state.currentRoom # prevState[1].currentRoom
        pc == IF needsSummaryRefresh(SummaryInterval)
                 /\ (getRecentHistory \/ getExplorationStats)
              THEN "summary"
              ELSE AfterSummary(isNewLocation, loop, lastCommands)
    IN  /\ turnsBegun < maxTurns
        /\ turnsBegun' = turnsBegun + 1
        /\ gameLog' = addLogEntry(gameLog, "thinking", NoText)
        /\ lastState' = Some(state)
        /\ forbiddenCommands' = LoopForbids(forbiddenCommands, loop, lastCommands)
        /\ runs' = [runs EXCEPT ![p] =
               [run EXCEPT !.pc = pc, !.prevState = prevState, !.loop = Some(loop),
                           !.isNewLocation = isNewLocation]]
        /\ UNCHANGED <<currentTurn, lastCommands, stuckCount, noChangeTurns,
                       gameSummary, lastSummaryTurn, rooms, unresolvedLeads,
                       globalInventory>>

\* the lowest free slot takes the new invocation
FreeSlot(p) == runs[p].pc = "idle" /\ \A q \in 1..(p - 1) : runs[q].pc # "idle"

initializeGame(p, kind) ==
    /\ runs' = [runs EXCEPT ![p] = [Capture(kind) EXCEPT !.pc = "init"]]
    /\ UNCHANGED <<memory, isInitialized, isRunning, stopRef, gameLog, turnsBegun>>

\* the Start button, shown while isRunning is false
handleStart(p, maxTurns) ==
    /\ ~isRunning
    /\ FreeSlot(p)
    /\ IF ~isInitialized
       THEN initializeGame(p, "start")
       ELSE /\ stopRef' = FALSE
            /\ isRunning' = TRUE
            /\ BeginTurn(p, Capture("start"), maxTurns)
            /\ UNCHANGED <<isInitialized>>

\* the Step button, enabled while isRunning is false
handleStep(p, maxTurns) ==
    /\ ~isRunning
    /\ FreeSlot(p)
    /\ IF ~isInitialized
       THEN initializeGame(p, "step")
       ELSE IF stopRef
       THEN UNCHANGED vars
       ELSE /\ isRunning' = TRUE
            /\ BeginTurn(p, Capture("step"), maxTurns)
            /\ UNCHANGED <<isInitialized, stopRef>>

\* the Stop button, shown while isRunning is true
handleStop ==
    /\ isRunning
    /\ stopRef' = TRUE
    /\ isRunning' = FALSE
    /\ UNCHANGED <<memory, isInitialized, gameLog, runs, turnsBegun>>

\* the Reset button, enabled while isRunning is false
handleReset ==
    /\ ~isRunning
    /\ stopRef' = TRUE
    /\ isRunning' = FALSE
    /\ gameLog' = <<>>
    /\ isInitialized' = FALSE
    /\ reset
    /\ runs' = [p \in 1..MaxRuns |->
           IF runs[p].pc \in TurnPcs /\ runs[p].window = Null
           THEN [runs[p] EXCEPT !.window = Some(lastCommands)]
           ELSE runs[p]]
    /\ UNCHANGED <<turnsBegun>>

\* initialize() resolves; a Start whose playTurn was made before the game was
\* initialized leaves its loop at the first playTurn
InitDone(p, initialOutput) ==
    /\ runs[p].pc = "init"
    /\ isInitialized' = TRUE
    /\ gameLog' = addLogEntry(gameLog, "game", initialOutput)
    /\ runs' = [runs EXCEPT ![p] = IdleRun]
    /\ IF runs[p].kind = "start"
       THEN stopRef' = FALSE /\ isRunning' = FALSE
       ELSE UNCHANGED <<stopRef, isRunning>>
    /\ UNCHANGED <<memory, turnsBegun>>

SummaryOutcomes == {"summary", "short", "throws"}

\* the reasoner's speak in compressGameHistory settles
SummaryDone(p, outcome) ==
    LET run == runs[p]
    IN  /\ run.pc = "summary"
        /\ IF outcome = "summary" THEN setGameSummary("summary") ELSE UNCHANGED memory
        /\ runs' = [runs EXCEPT ![p].pc =
               AfterSummary(run.isNewLocation, run.loop[1], LocalWindow(run))]
        /\ UNCHANGED <<isInitialized, isRunning, stopRef, gameLog, turnsBegun>>

\* the catch of playTurn
TurnFails(p) ==
    /\ gameLog' = addLogEntry(gameLog, "game", TextError)
    /\ AfterTurn(p, FALSE)
    /\ UNCHANGED <<memory, isInitialized, stopRef, turnsBegun>>

\* the reasoner's speak in getReasoning resolves
AdviceDone(p) ==
    /\ runs[p].pc = "advice"
    /\ runs' = [runs EXCEPT ![p].pc = "decide"]
    /\ UNCHANGED <<memory, isInitialized, isRunning, stopRef, gameLog, turnsBegun>>

\* the reasoner's speak in getReasoning rejects
AdviceFails(p) ==
    /\ runs[p].pc = "advice"
    /\ TurnFails(p)

\* the actor's speak resolves with answer
DecideDone(p, answer) ==
    LET run == runs[p]
    IN  /\ run.pc = "decide"
        /\ \E command \in {FinalCommand(answer)} :
            /\ updateAfterCommand(command, run.gameOutput, run.prevState)
            /\ IF stopRef
               THEN /\ gameLog' = WithoutThinking(gameLog)
                    /\ AfterTurn(p, FALSE)
               ELSE /\ gameLog' = addLogEntry(WithoutThinking(gameLog), "command", command)
                    /\ runs' = [runs EXCEPT ![p] =
                           [run EXCEPT !.pc = "send", !.answer = Some(answer),
                                       !.command = Some(command)]]
                    /\ UNCHANGED isRunning
        /\ UNCHANGED <<isInitialized, stopRef, turnsBegun>>

\* the actor's speak rejects
DecideFails(p) ==
    /\ runs[p].pc = "decide"
    /\ TurnFails(p)

\* the engine answers the command
SendDone(p, response) ==
    /\ runs[p].pc = "send"
    /\ gameLog' = addLogEntry(gameLog, "game", response)
    /\ AfterTurn(p, ~stopRef)
    /\ UNCHANGED <<memory, isInitialized, stopRef, turnsBegun>>

\* the delay between two turns of handleStart is over
DelayDone(p, maxTurns) ==
    LET run == runs[p]
    IN  /\ run.pc = "delay"
        /\ IF stopRef \/ ~run.initialized
           THEN /\ runs' = [runs EXCEPT ![p] = IdleRun]
                /\ isRunning' = FALSE
                /\ UNCHANGED <<memory, gameLog, turnsBegun>>
           ELSE /\ BeginTurn(p, run, maxTurns)
                /\ UNCHANGED isRunning
        /\ UNCHANGED <<isInitialized, stopRef>>

-----------------------------------------------------------------------------
(* Spec: the memory and the policy driven through their public operations. *)

SpecCommands == {<<"N">>, <<"LOOK">>, <<"EXAMINE", "LAMP">>, <<"TAKE", "KEY">>}

SpecTexts == {TextWestOfHouse, TextCellar, TextCantGo, TextTaken, TextClosedLever}

\* the commands Spec forbids by forbidCommand (a failed command is forbidden, too)
ForbidCommands == {<<"LOOK">>, <<"OPEN", "DOOR">>}

RoomNames == {"West of House", "Cellar", UnknownRoom}

LeadTypes == {"locked", "container", "puzzle", "hazard", "notable"}

\* what a caller may pass as prevState: null, or a state read earlier, of which
\* updateAfterCommand reads currentRoom only
PrevStates == {Null} \cup {Some([currentRoom |-> r]) : r \in RoomNames}

Update ==
    /\ currentTurn < MaxTurns
    /\ \E command \in SpecCommands, gameOutput \in SpecTexts, prevState \in PrevStates :
           updateAfterCommand(command, gameOutput, prevState)
    /\ UNCHANGED <<probe, player>>

\* the texts Spec hands to extractState directly
ExtractTexts == {TextWestOfHouse, TextCantGo}

Extract ==
    /\ \E gameOutput \in ExtractTexts : extractState(gameOutput)
    /\ UNCHANGED <<probe, player>>

Forbid ==
    /\ Cardinality(DOMAIN forbiddenCommands) < MaxForbidden
    /\ \E command \in ForbidCommands : forbidCommand(command, DefaultForbidTurns)
    /\ UNCHANGED <<probe, player>>

Resolve ==
    /\ \E room \in RoomNames, type \in LeadTypes : resolveLead(room, type)
    /\ UNCHANGED <<probe, player>>

Reset ==
    /\ reset
    /\ UNCHANGED <<probe, player>>

Next == Update \/ Extract \/ Forbid \/ Reset

Spec == Init /\ [][Next]_vars

-----------------------------------------------------------------------------
(* SpecLeads: leads detected by updateAfterCommand and resolved by the     *)
(* caller.                                                                 *)

LeadUpdate ==
    /\ currentTurn < MaxLeadTurns
    /\ \E command \in SpecCommands, gameOutput \in SpecTexts, prevState \in PrevStates :
           updateAfterCommand(command, gameOutput, prevState)
    /\ UNCHANGED <<probe, player>>

NextLeads == LeadUpdate \/ Resolve \/ Reset

SpecLeads == Init /\ [][NextLeads]_vars

-----------------------------------------------------------------------------
(* SpecLoop: a run of updateAfterCommand calls long enough to fill the     *)
(* window detectLoops looks at.                                            *)

LoopCommands == {<<"N">>, <<"S">>, <<"LOOK">>}

LoopTexts == {TextQuiet, TextCantGo}

LoopUpdate ==
    /\ currentTurn < MaxLoopTurns
    /\ \E command \in LoopCommands, gameOutput \in LoopTexts :
           updateAfterCommand(command, gameOutput, getState)
    /\ UNCHANGED <<probe, player>>

NextLoop == LoopUpdate

SpecLoop == Init /\ [][NextLoop]_vars

-----------------------------------------------------------------------------
(* SpecDecay: a caller forbids a command for N turns and counts the        *)
(* updateAfterCommand calls made since (probe), until the command is       *)
(* forbidden again by a failure or by another forbidCommand call.          *)

DecayCommands == {<<"N">>, <<"LOOK">>}

WatchCommands == {<<"N">>, <<"LOOK">>, <<"look">>}

DecayTexts == {TextQuiet, TextCantGo}

Watch ==
    /\ probe = Null
    /\ \E command \in WatchCommands, turns \in 1..MaxForbidTurns :
        /\ forbidCommand(command, turns)
        /\ probe' = Some([command |-> command, turns |-> turns, calls |-> 0])
    /\ UNCHANGED player

DecayUpdate ==
    /\ currentTurn < MaxDecayTurns
    /\ \E command \in DecayCommands, gameOutput \in DecayTexts :
        /\ updateAfterCommand(command, gameOutput, getState)
        /\ probe' = IF probe = Null THEN Null
                    ELSE IF command = probe[1].command /\ "failure" \in gameOutput.marks
                         THEN Null
                    ELSE Some([probe[1] EXCEPT !.calls = @ + 1])
    /\ UNCHANGED player

NextDecay == Watch \/ DecayUpdate

SpecDecay == Init /\ [][NextDecay]_vars

-----------------------------------------------------------------------------
(* SpecReads: a caller reads the memory and the policy between the calls   *)
(* that change the memory, and keeps what the last reads returned (probe). *)

\* a read that stores what it found: it marks the exits it returns as tried
ReadTriesExits ==
    /\ rooms' = IF CurrentRoomIndex = 0 THEN rooms
                ELSE [rooms EXCEPT ![CurrentRoomIndex].triedExits =
                                       @ \cup Range(rooms[CurrentRoomIndex].exits)]
    /\ UNCHANGED <<currentTurn, lastCommands, stuckCount, noChangeTurns,
                   forbiddenCommands, gameSummary, lastSummaryTurn, unresolvedLeads,
                   globalInventory, lastState>>

\* the memory after a call of getUntriedExits, getUnexaminedObjects,
\* getCurrentRoomLeads, detectLoops, isForbidden, toPromptFormat,
\* generateCandidates, getBestAction, getTopCandidates or validateCommand: none of
\* them assigns to a field
ReadOnly == UNCHANGED memory

ReadCommands == {<<"N">>, <<"LOOK">>, <<"GO", "WEST">>}

\* what one round of the read operations returns
ReadResults ==
    [untriedExits |-> getUntriedExits,
     unexamined |-> getUnexaminedObjects,
     leads |-> getCurrentRoomLeads,
     loop |-> detectLoops,
     forbidden |-> [c \in ReadCommands |-> isForbidden(c)],
     prompt |-> toPromptFormat,
     candidates |-> generateCandidates,
     best |-> getBestAction,
     top |-> getTopCandidates(5),
     validation |-> [c \in ReadCommands |-> validateCommand(c)]]

\* the caller reads; probe keeps the results and the number of rounds
CallReads ==
    /\ IF probe = Null THEN TRUE ELSE probe[1].calls < MaxReads
    /\ ReadOnly
    /\ probe' = Some([results |-> ReadResults,
                      calls |-> IF probe = Null THEN 1 ELSE probe[1].calls + 1])
    /\ UNCHANGED player

UpdateCommands == {<<"N">>, <<"EXAMINE", "LAMP">>}

UpdateTexts == {TextWestOfHouse, TextCellar, TextCantGo}

ReadUpdate ==
    /\ currentTurn < MaxReadTurns
    /\ \E command \in UpdateCommands, gameOutput \in UpdateTexts :
           updateAfterCommand(command, gameOutput, getState)
    /\ probe' = Null
    /\ UNCHANGED player

ReadExtract ==
    /\ \E gameOutput \in ExtractTexts : extractState(gameOutput)
    /\ probe' = Null
    /\ UNCHANGED player

NextReads == CallReads \/ ReadUpdate \/ ReadExtract

SpecReads == Init /\ [][NextReads]_vars

-----------------------------------------------------------------------------
(* SpecWindow: more updateAfterCommand calls than the window holds; probe  *)
(* is the caller's list of the commands it has passed, in call order.      *)

WindowCommands == {<<"N">>, <<"LOOK">>}

WindowTexts == {TextQuiet}

Passed == IF probe = Null THEN <<>> ELSE probe[1]

WindowUpdate ==
    /\ currentTurn < MaxWindowTurns
    /\ \E command \in WindowCommands, gameOutput \in WindowTexts :
        /\ updateAfterCommand(command, gameOutput, getState)
        /\ probe' = Some(Append(Passed, command))
    /\ UNCHANGED player

NextWindow == WindowUpdate

SpecWindow == Init /\ [][NextWindow]_vars

-----------------------------------------------------------------------------
(* SpecClassify: updateAfterCommand over the commands and texts its        *)
(* classification tells apart.                                             *)

ClassifyCommands ==
    {<<"N">>, <<"LOOK">>, <<"look">>, <<"INVENTORY">>, <<"EXAMINE", "LAMP">>,
     <<"TAKE", "KEY">>, <<"OPEN", "MAILBOX">>}

ClassifyTexts ==
    {TextWestOfHouse, TextCantGo, TextTaken, TextOpened, TextQuiet}

ClassifyUpdate ==
    /\ currentTurn < MaxClassifyTurns
    /\ \E command \in ClassifyCommands, gameOutput \in ClassifyTexts,
          prevState \in PrevStates :
           updateAfterCommand(command, gameOutput, prevState)
    /\ UNCHANGED <<probe, player>>

NextClassify == ClassifyUpdate

SpecClassify == Init /\ [][NextClassify]_vars

-----------------------------------------------------------------------------
(* SpecStreak: runs of updateAfterCommand calls with resets in between.    *)

NextStreak == LoopUpdate \/ Reset

SpecStreak == Init /\ [][NextStreak]_vars

-----------------------------------------------------------------------------
(* SpecLife: a memory used, reset and used again.  The caller notes (probe) *)
(* its last call, the turn counter before it, and the directions it has     *)
(* tried in each room since the last reset.                                *)

LifeCommands ==
    {<<"N">>, <<"NE">>, <<"ENTER">>, <<"EXAMINE", "LAMP">>, <<"TAKE", "KEY">>,
     <<"DROP", "KEY">>}

LifeTexts == {TextWestOfHouse, TextCellar, TextTaken, TextQuiet, TextCantGo}

\* the (room, direction) pairs the caller has tried so far
Tried == IF probe = Null THEN {} ELSE probe[1].tried

\* the direction a movement command names, as a set (empty for other commands)
Directions(command) ==
    IF Len(command) = 1 /\ command[1] \in DIRECTION_MAP
    THEN {DirectionOf(command[1])}
    ELSE {}

LifeUpdate ==
    /\ currentTurn < MaxLifeTurns
    /\ \E command \in LifeCommands, gameOutput \in LifeTexts :
        /\ updateAfterCommand(command, gameOutput, getState)
        /\ probe' = Some([op |-> "update", turns |-> currentTurn,
                          tried |-> Tried \cup
                              {<<lastState'[1].currentRoom, d>> : d \in Directions(command)}])
    /\ UNCHANGED player

LifeReset ==
    /\ reset
    /\ probe' = Some([op |-> "reset", turns |-> currentTurn, tried |-> {}])
    /\ UNCHANGED player

NextLife == LifeUpdate \/ LifeReset

SpecLife == Init /\ [][NextLife]_vars

-----------------------------------------------------------------------------
(* SpecPlayer: the buttons of the player pressed in any order while the    *)
(* handlers are suspended at their awaits.                                 *)

PlayerAnswers == {<<"look">>, <<"N">>}

PlayerTexts == {TextWestOfHouse, TextCantGo}

PlayerStart ==
    /\ \E p \in 1..MaxRuns : handleStart(p, MaxPlayerTurns)
    /\ UNCHANGED <<probe, zork>>

PlayerStep ==
    /\ \E p \in 1..MaxRuns : handleStep(p, MaxPlayerTurns)
    /\ UNCHANGED <<probe, zork>>

PlayerInitDone ==
    /\ \E p \in 1..MaxRuns : InitDone(p, TextWestOfHouse)
    /\ UNCHANGED <<probe, zork>>

PlayerDecideDone ==
    /\ \E p \in 1..MaxRuns, answer \in PlayerAnswers : DecideDone(p, answer)
    /\ UNCHANGED <<probe, zork>>

PlayerDecideFails ==
    /\ \E p \in 1..MaxRuns : DecideFails(p)
    /\ UNCHANGED <<probe, zork>>

PlayerSendDone ==
    /\ \E p \in 1..MaxRuns, response \in PlayerTexts : SendDone(p, response)
    /\ UNCHANGED <<probe, zork>>

PlayerStop ==
    /\ handleStop
    /\ UNCHANGED <<probe, zork>>

PlayerReset ==
    /\ handleReset
    /\ UNCHANGED <<probe, zork>>

PlayerDelayDone ==
    /\ \E p \in 1..MaxRuns : DelayDone(p, MaxPlayerTurns)
    /\ UNCHANGED <<probe, zork>>

NextPlayer ==
    \/ PlayerStart
    \/ PlayerStep
    \/ PlayerStop
    \/ PlayerReset
    \/ PlayerInitDone
    \/ PlayerDecideDone
    \/ PlayerDecideFails
    \/ PlayerSendDone
    \/ PlayerDelayDone

SpecPlayer == Init /\ [][NextPlayer]_vars

-----------------------------------------------------------------------------
(* SpecSession: one game played turn after turn by Start and Step, long    *)
(* enough for the reasoner's advice and for the summary to come up.        *)

SessionAnswers == {<<"look">>, <<"N">>, <<"OK", "GO", "WEST">>}

SessionTexts == {TextWestOfHouse, TextCantGo}

SessionStart ==
    /\ handleStart(1, MaxSessionTurns)
    /\ UNCHANGED <<probe, zork>>

SessionStep ==
    /\ handleStep(1, MaxSessionTurns)
    /\ UNCHANGED <<probe, zork>>

SessionInitDone ==
    /\ InitDone(1, TextWestOfHouse)
    /\ UNCHANGED <<probe, zork>>

SessionSummaryDone ==
    /\ \E outcome \in SummaryOutcomes : SummaryDone(1, outcome)
    /\ UNCHANGED <<probe, zork>>

SessionAdviceDone ==
    /\ AdviceDone(1)
    /\ UNCHANGED <<probe, zork>>

SessionAdviceFails ==
    /\ AdviceFails(1)
    /\ UNCHANGED <<probe, zork>>

SessionDecideDone ==
    /\ \E answer \in SessionAnswers : DecideDone(1, answer)
    /\ UNCHANGED <<probe, zork>>

SessionDecideFails ==
    /\ DecideFails(1)
    /\ UNCHANGED <<probe, zork>>

SessionSendDone ==
    /\ \E response \in SessionTexts : SendDone(1, response)
    /\ UNCHANGED <<probe, zork>>

SessionDelayDone ==
    /\ DelayDone(1, MaxSessionTurns)
    /\ UNCHANGED <<probe, zork>>

NextSession ==
    \/ SessionStart
    \/ SessionStep
    \/ SessionInitDone
    \/ SessionSummaryDone
    \/ SessionAdviceDone
    \/ SessionAdviceFails
    \/ SessionDecideDone
    \/ SessionDecideFails
    \/ SessionSendDone
    \/ SessionDelayDone

SpecSession == Init /\ [][NextSession]_vars

-----------------------------------------------------------------------------
(* SpecLong: one Start and a session longer than the command window, in one *)
(* room, with an actor that never answers one of its last two commands, so  *)
(* that no loop comes up.  The caller notes (probe) the turn at which the   *)
(* last summarization call was issued.                                      *)

LongAnswers == {<<"LOOK">>, <<"INVENTORY">>, <<"EXAMINE", "MAILBOX">>}

\* the commands of the last two turns
LastTwo == Range(Commands(SliceLast(lastCommands, 2)))

\* the step issues the summarization call
IssuesSummary == runs[1].pc # "summary" /\ runs'[1].pc = "summary"

NoteSummary ==
    probe' = IF IssuesSummary THEN Some([op |-> "summary", turn |-> currentTurn])
             ELSE probe

LongStart ==
    /\ handleStart(1, MaxLongTurns)
    /\ NoteSummary
    /\ UNCHANGED zork

LongInitDone ==
    /\ InitDone(1, TextWestOfHouse)
    /\ UNCHANGED <<probe, zork>>

LongSummaryDone ==
    /\ \E outcome \in SummaryOutcomes : SummaryDone(1, outcome)
    /\ UNCHANGED <<probe, zork>>

LongAdviceDone ==
    /\ AdviceDone(1)
    /\ UNCHANGED <<probe, zork>>

LongDecideDone ==
    /\ \E answer \in LongAnswers \ LastTwo : DecideDone(1, answer)
    /\ UNCHANGED <<probe, zork>>

LongSendDone ==
    /\ SendDone(1, TextWestOfHouse)
    /\ UNCHANGED <<probe, zork>>

LongDelayDone ==
    /\ DelayDone(1, MaxLongTurns)
    /\ NoteSummary
    /\ UNCHANGED zork

NextLong ==
    \/ LongStart
    \/ LongInitDone
    \/ LongSummaryDone
    \/ LongAdviceDone
    \/ LongDecideDone
    \/ LongSendDone
    \/ LongDelayDone

SpecLong == Init /\ [][NextLong]_vars

-----------------------------------------------------------------------------
(* SpecStop: the session of SpecLong, shorter, with the Stop button pressed *)
(* at any await and Start pressed again afterwards.                         *)

StopStart ==
    /\ handleStart(1, MaxStopTurns)
    /\ UNCHANGED <<probe, zork>>

StopStop ==
    /\ handleStop
    /\ UNCHANGED <<probe, zork>>

StopDelayDone ==
    /\ DelayDone(1, MaxStopTurns)
    /\ UNCHANGED <<probe, zork>>

NextStop ==
    \/ StopStart
    \/ StopStop
    \/ LongInitDone
    \/ LongSummaryDone
    \/ LongAdviceDone
    \/ LongDecideDone
    \/ LongSendDone
    \/ StopDelayDone

SpecStop == Init /\ [][NextStop]_vars

-----------------------------------------------------------------------------
(* ZorkService and its BrowserIODevice.  The Z-machine runs in the          *)
(* background: it reads a line, works on it, writes its output and reads    *)
(* the next line.  initialize and sendCommand poll isWaitingForInput every  *)
(* 50 ms and give up after 5 seconds; one of them is in progress at a time. *)

notZork == <<memory, probe, isInitialized, isRunning, stopRef, gameLog, runs, turnsBegun>>

\* ZorkService.initialize up to its first await of the polling loop: the game
\* loop is started and the engine begins with its boot text
initialize ==
    /\ ~zork.isInitialized
    /\ zork.call = Null
    /\ zork' = [zork EXCEPT !.isInitialized = TRUE,
                            !.executing = Some(0),
                            !.written = FALSE,
                            !.call = Some([kind |-> "initialize", command |-> 0])]
    /\ UNCHANGED notZork

\* BrowserIODevice.provideInput: the line goes to the pending readLine, or to
\* nobody when no readLine is pending
provideInput(z, input) ==
    IF z.inputResolver
    THEN [z EXCEPT !.inputResolver = FALSE,
                   !.executing = Some(input),
                   !.written = FALSE,
                   !.inputs = Append(@, input)]
    ELSE z

\* ZorkService.sendCommand up to the first await of its polling loop; the
\* commands are numbered in the order of the calls
sendCommand ==
    /\ zork.isInitialized
    /\ zork.call = Null
    /\ zork.turnCount < MaxEngineCommands
    /\ LET command == zork.turnCount + 1
           cleared == [zork EXCEPT !.outputBuffer = <<>>, !.turnCount = command]
       IN  zork' = [provideInput(cleared, command) EXCEPT
                       !.call = Some([kind |-> "sendCommand", command |-> command])]
    /\ UNCHANGED notZork

\* the call in progress returns getAndClearOutput()
Returns(timedOut) ==
    zork' = [zork EXCEPT !.outputBuffer = <<>>,
                         !.call = Null,
                         !.results = Append(@, [kind |-> zork.call[1].kind,
                                                command |-> zork.call[1].command,
                                                text |-> zork.outputBuffer,
                                                timedOut |-> timedOut])]

\* the polling loop finds the engine waiting for input
WaitReady ==
    /\ zork.call # Null
    /\ zork.inputResolver
    /\ Returns(FALSE)
    /\ UNCHANGED notZork

\* the polling loop gives up after 5 seconds
WaitTimeout ==
    /\ zork.call # Null
    /\ ~zork.inputResolver
    /\ Returns(TRUE)
    /\ UNCHANGED notZork

\* the engine writes the output of the line it is working on (writeString)
EngineWrite ==
    /\ zork.executing # Null
    /\ ~zork.written
    /\ zork' = [zork EXCEPT !.outputBuffer = Append(@, zork.executing[1]),
                            !.written = TRUE]
    /\ UNCHANGED notZork

\* the engine asks for the next line (readLine)
readLine ==
    /\ zork.executing # Null
    /\ zork.written
    /\ zork' = [zork EXCEPT !.inputResolver = TRUE, !.executing = Null]
    /\ UNCHANGED notZork

NextEngine ==
    \/ initialize
    \/ sendCommand
    \/ WaitReady
    \/ WaitTimeout
    \/ EngineWrite
    \/ readLine

SpecEngine == Init /\ [][NextEngine]_vars

-----------------------------------------------------------------------------
(* Properties.                                                             *)

Last(s) == s[Len(s)]

\* the generation step a candidate comes from, read off its reason
Phase(c) ==
    CASE c.reason[1] = "Unresolved lead" -> 1
      [] c.reason[1] \in {"Unexamined object", "Object to collect"} -> 2
      [] c.reason[1] = "Untried exit" -> 3
      [] c.reason[1] \in {"Gather information", "Check what you are carrying"} -> 4
      [] c.reason[1] = "Previously tried exit" -> 5

\* some candidate of the list has this command and this score
Offers(cands, command, score) ==
    \E i \in 1..Len(cands) : cands[i].command = command /\ cands[i].score = score

\* C1: no candidate of generateCandidates() is in the forbidden map, so the best
\* action is never forbidden, the -5 penalty is never applied and every score
\* lies in 0..3.
C1_NoForbiddenCandidate ==
    /\ \A c \in Range(generateCandidates) :
           /\ ~isForbidden(c.command)
           /\ Penalized(c) = c
           /\ c.score \in 0..3
    /\ \A best \in Range(getBestAction) : ~isForbidden(best.command)

\* a loop is on, LOOK is forbidden, and the room still has an untried exit
C1_Witness ==
    /\ getState # Null
    /\ detectLoops.isLooping
    /\ isForbidden(<<"LOOK">>)
    /\ Len(getUntriedExits) > 0
    /\ Len(generateCandidates) > 0

IsUpperCase(str) == ToUpperCase(str) = str

\* C2 (as amended): an upper-case command forbidden by forbidCommand(c, N), N >= 1,
\* and not forbidden again meanwhile, is rejected by validateCommand at once and
\* after each of the next N - 1 updateAfterCommand calls, and is accepted as valid
\* after the Nth call.
C2_ForbiddenForNTurns ==
    (probe # Null /\ IsUpperCase(probe[1].command)) =>
        /\ probe[1].calls < probe[1].turns => ~validateCommand(probe[1].command).valid
        /\ probe[1].calls >= probe[1].turns => validateCommand(probe[1].command).valid

\* C2 as claimed: rejected after each of the next N calls, accepted after the
\* (N+1)th.
C2_AsClaimed ==
    (probe # Null /\ IsUpperCase(probe[1].command)) =>
        /\ (probe[1].calls >= 1 /\ probe[1].calls <= probe[1].turns)
               => ~validateCommand(probe[1].command).valid
        /\ probe[1].calls = probe[1].turns + 1 => validateCommand(probe[1].command).valid

\* a command forbidden for two turns or more has just become valid again
C2_Witness ==
    /\ probe # Null
    /\ IsUpperCase(probe[1].command)
    /\ probe[1].turns >= 2
    /\ probe[1].calls = probe[1].turns
    /\ validateCommand(probe[1].command).valid

\* C3: an updateAfterCommand call whose output matches the failure pattern records
\* 'failure' for the command and leaves it in the forbidden map with counter 10.
C3_FailureForbidsForTen ==
    [][\A command \in LoopCommands, gameOutput \in LoopTexts :
         ("failure" \in gameOutput.marks
          /\ updateAfterCommand(command, gameOutput, getState))
         => /\ Last(lastCommands').command = command
            /\ Last(lastCommands').result = "failure"
            /\ command \in DOMAIN forbiddenCommands'
            /\ forbiddenCommands'[command] = FailureForbidTurns]_vars

\* the commands of the last 6 entries of the window
Last6 == Commands(SliceLast(lastCommands, 6))

\* two adjacent entries of the last 6 carry the same command
HasRepeat == \E i \in 2..Len(Last6) : Last6[i] = Last6[i - 1]

\* the last 4 entries have the form A,B,A,B with A # B
HasAlternation ==
    /\ Len(lastCommands) >= 4
    /\ LET n == Len(lastCommands)
       IN  /\ lastCommands[n - 3].command = lastCommands[n - 1].command
           /\ lastCommands[n - 2].command = lastCommands[n].command
           /\ lastCommands[n - 3].command # lastCommands[n - 2].command

\* the last 3 updateAfterCommand calls were classified no-change or failure
ThreeWithoutProgress ==
    /\ Len(lastCommands) >= 3
    /\ \A i \in (Len(lastCommands) - 2)..Len(lastCommands) :
           lastCommands[i].result \in {"no-change", "failure"}

\* C4: whenever two adjacent entries among the last 6 of the window carry the same
\* command, detectLoops() reports a loop with pattern 'repeat'.
C4_RepeatDetected ==
    HasRepeat => (detectLoops.isLooping /\ detectLoops.pattern = "repeat")

\* a repeat together with an alternation and a no-change streak of 3
C4_Witness ==
    /\ HasRepeat
    /\ HasAlternation
    /\ noChangeTurns >= 3
    /\ \E i \in 1..Len(lastCommands) : lastCommands[i].result = "progress"

\* C5: when the last 4 entries have the form A,B,A,B with A # B and the last 6
\* hold no repeat, detectLoops() reports 'alternation', whatever the streak.
C5_AlternationDetected ==
    /\ (HasAlternation /\ ~HasRepeat)
           => (detectLoops.isLooping /\ detectLoops.pattern = "alternation")
    /\ Commands(lastCommands) = << <<"N">>, <<"S">>, <<"N">>, <<"S">> >>
           => detectLoops = Loop("alternation", <<"Alternating", <<"N">>, <<"S">> >>)

\* the history N,S,N,S, none of which made progress
C5_Witness ==
    /\ Commands(lastCommands) = << <<"N">>, <<"S">>, <<"N">>, <<"S">> >>
    /\ noChangeTurns >= 3

\* C6 (as amended): after 3 or more consecutive calls classified no-change or
\* failure, with no repeat in the last 6 outcomes and no A,B,A,B alternation in
\* the last 4, detectLoops() reports 'stuck'.
C6_StuckDetected ==
    (ThreeWithoutProgress /\ ~HasRepeat /\ ~HasAlternation)
        => (detectLoops.isLooping /\ detectLoops.pattern = "stuck")

\* C6 as claimed: the alternation is not excluded.
C6_AsClaimed ==
    (ThreeWithoutProgress /\ ~HasRepeat)
        => (detectLoops.isLooping /\ detectLoops.pattern = "stuck")

\* four or more outcomes, the last three without progress one of them a failure,
\* no repeat and no alternation
C6_Witness ==
    /\ Len(lastCommands) >= 4
    /\ ThreeWithoutProgress
    /\ Last(lastCommands).result = "failure"
    /\ ~HasRepeat
    /\ ~HasAlternation

\* C7: the unresolved-lead list holds at most one lead per (room, type) pair.
C7_LeadUniqueness ==
    \A i, j \in 1..Len(unresolvedLeads) :
        (unresolvedLeads[i].room = unresolvedLeads[j].room
         /\ unresolvedLeads[i].type = unresolvedLeads[j].type) => i = j

\* a room visited twice holds leads of two types
C7_Witness ==
    \E r \in 1..Len(rooms) :
        /\ rooms[r].visitCount >= 2
        /\ \E i, j \in 1..Len(unresolvedLeads) :
               /\ unresolvedLeads[i].room = rooms[r].name
               /\ unresolvedLeads[j].room = rooms[r].name
               /\ unresolvedLeads[i].type # unresolvedLeads[j].type

\* C8: generateCandidates() is in non-increasing score order, candidates of equal
\* score keep their generation order, getBestAction() is its first element and
\* getTopCandidates(n) its first n elements.
C8_SortedStable ==
    \A sorted \in {generateCandidates}, generated \in {ScoredCandidates} :
        /\ \A i, j \in 1..Len(sorted) :
               i < j => /\ sorted[i].score >= sorted[j].score
                        /\ sorted[i].score = sorted[j].score
                               => Phase(sorted[i]) <= Phase(sorted[j])
        /\ \A sc \in -5..3 :
               SelectSeq(sorted, LAMBDA c : c.score = sc)
                   = SelectSeq(generated, LAMBDA c : c.score = sc)
        /\ getBestAction = IF sorted = <<>> THEN Null ELSE Some(sorted[1])
        /\ \A n \in 0..5 :
               getTopCandidates(n) = [k \in 1..Min(n, Len(sorted)) |-> sorted[k]]

\* the sort moves a candidate forward and leaves a tie between two generation steps
C8_Witness ==
    LET sorted == generateCandidates
        generated == ScoredCandidates
    IN  /\ \E k \in 1..(Len(generated) - 1) : generated[k].score < generated[k + 1].score
        /\ \E i, j \in 1..Len(sorted) :
               /\ i < j
               /\ sorted[i].score = sorted[j].score
               /\ Phase(sorted[i]) < Phase(sorted[j])

\* the current room has one unresolved lead, two unexamined objects and one
\* untried exit
OneLeadTwoObjectsOneExit ==
    /\ getState # Null
    /\ Len(getCurrentRoomLeads) = 1
    /\ Len(getUnexaminedObjects) = 2
    /\ Len(getUntriedExits) = 1

\* lead-derived candidates, then object candidates, then the untried exit, then
\* LOOK / INVENTORY and the fallback movements
OrderedByStep(cands) ==
    \A i, j \in 1..Len(cands) :
        /\ (Phase(cands[i]) = 1 /\ Phase(cands[j]) = 2) => i < j
        /\ (Phase(cands[i]) = 2 /\ Phase(cands[j]) = 3) => i < j
        /\ (Phase(cands[i]) \in {1, 2, 3} /\ Phase(cands[j]) \in {4, 5}) => i < j

\* C9 (as amended): with one unresolved lead, two unexamined objects and one
\* untried exit in the current room, and no loop detected, the policy lists the
\* lead-derived candidates first, then the object candidates, then the exit, and
\* all of these before LOOK / INVENTORY and the fallback movements.
C9_OrderByStep ==
    (OneLeadTwoObjectsOneExit /\ ~detectLoops.isLooping)
        => (OrderedByStep(generateCandidates) /\ OrderedByStep(getTopCandidates(5)))

\* C9 as claimed: in every such state, looping or not.
C9_AsClaimed ==
    OneLeadTwoObjectsOneExit
        => (OrderedByStep(generateCandidates) /\ OrderedByStep(getTopCandidates(5)))

\* such a room, no loop, and candidates of every generation step
C9_Witness ==
    /\ OneLeadTwoObjectsOneExit
    /\ ~detectLoops.isLooping
    /\ \A ph \in 1..5 :
           \E i \in 1..Len(generateCandidates) : Phase(generateCandidates[i]) = ph

\* C10: when no loop is detected, every object of the current room that is
\* neither examined nor taken yields EXAMINE and TAKE candidates, and every known
\* exit not yet tried yields its direction, each with score 2 unless forbidden.
C10_ObjectsAndExitsScoreTwo ==
    (CurrentRoomIndex # 0 /\ ~detectLoops.isLooping) =>
        LET room == rooms[CurrentRoomIndex]
        IN  \A cands \in {generateCandidates} :
            /\ \A o \in Range(room.objects) :
                   (o \notin room.examinedObjects /\ o \notin room.takenObjects) =>
                       /\ ~isForbidden(<<"EXAMINE">> \o o)
                              => Offers(cands, <<"EXAMINE">> \o o, 2)
                       /\ ~isForbidden(<<"TAKE">> \o o) => Offers(cands, <<"TAKE">> \o o, 2)
            /\ \A e \in Range(room.exits) :
                   (e \notin room.triedExits /\ ~isForbidden(<<e>>))
                       => Offers(cands, <<e>>, 2)

\* West of House, MAILBOX newly seen, exits N and S, no lead: the four candidates
\* are offered at score 2
C10_Witness ==
    /\ CurrentRoomIndex # 0
    /\ ~detectLoops.isLooping
    /\ LET room == rooms[CurrentRoomIndex]
       IN  /\ room.name = "West of House"
           /\ room.objects = << <<"MAILBOX">> >>
           /\ room.exits = <<"N", "S">>
           /\ room.triedExits = {}
           /\ room.examinedObjects = {} /\ room.takenObjects = {}
    /\ getCurrentRoomLeads = <<>>
    /\ Offers(generateCandidates, <<"EXAMINE", "MAILBOX">>, 2)
    /\ Offers(generateCandidates, <<"TAKE", "MAILBOX">>, 2)
    /\ Offers(generateCandidates, <<"N">>, 2)
    /\ Offers(generateCandidates, <<"S">>, 2)

\* the commands handed to validateCommand
ValidateInputs ==
    {<<"LOOK">>, <<"look">>, <<"N">>, <<"GO">>, <<"GO", "WEST">>, <<"LOOK", "NORTH">>,
     <<"LOOK", "LAMP">>, <<"MOVE", "N">>, <<"MOVE", "EGG">>, <<"MOVE", "LAMP">>,
     <<"WEST", "OF">>, <<"OPEN", "DOOR">>,
     <<"TAKE", "LAMP", "KEY", "EGG", "MAILBOX", "DOOR", "ON">>,
     <<"INVENTORY", "INVENTORY", "INVENTORY", "INVENTORY", "INVENTORY", "INVENTORY">>}

DirectionWords == {"UP", "DOWN", "NORTH", "SOUTH", "EAST", "WEST", "N", "S", "E", "W"}

\* the known-bad patterns as the specification names them: LOOK <direction>,
\* GO ..., MOVE <direction>, <direction> OF
BadAsDescribed(cmd) ==
    /\ Len(cmd) >= 2
    /\ \/ cmd[1] = "LOOK" /\ cmd[2] \in DirectionWords
       \/ cmd[1] = "GO"
       \/ cmd[1] = "MOVE" /\ cmd[2] \in DirectionWords \ {"UP", "DOWN"}
       \/ cmd[1] \in {"WEST", "NORTH", "SOUTH", "EAST"} /\ cmd[2] = "OF"

TooLong(cmd) == StrLength(cmd) > 50 \/ Len(cmd) > 6

\* what validateCommand returns when rejected is decided by reject
ValidationBy(command, reject) ==
    \A v \in {validateCommand(command)} :
        IF reject THEN ~v.valid /\ v.adjusted = BestOrLook
        ELSE v.valid /\ v.adjusted = ToUpperCase(command)

\* C11: validateCommand(cmd) rejects exactly when the upper-cased command is
\* forbidden, is LOOK <direction>, GO ..., MOVE <direction> or <direction> OF, is
\* longer than 50 characters or has more than 6 words, and then adjusted is the
\* best candidate's command (LOOK if none); otherwise it is valid and adjusted is
\* the upper-cased command.
C11_ValidateExactly ==
    \A command \in ValidateInputs :
        ValidationBy(command, \/ isForbidden(ToUpperCase(command))
                              \/ BadAsDescribed(ToUpperCase(command))
                              \/ TooLong(ToUpperCase(command)))

\* the same with the bad patterns as the code's expression matches them: anchored
\* at the start only, so that a second word that begins with a direction letter
\* is taken for the direction
C11_ValidateByExpression ==
    \A command \in ValidateInputs :
        ValidationBy(command, \/ isForbidden(ToUpperCase(command))
                              \/ BadPattern(ToUpperCase(command))
                              \/ TooLong(ToUpperCase(command)))

C13_WindowOfTen ==
    /\ Len(lastCommands) <= 10
    /\ Len(lastCommands) = Min(10, currentTurn)
    /\ currentTurn = Len(Passed)
    /\ Commands(lastCommands) = SliceLast(Passed, 10)
    /\ \A i \in 2..Len(lastCommands) : lastCommands[i].turn = lastCommands[i - 1].turn + 1
    /\ lastCommands # <<>> => Last(lastCommands).turn = currentTurn

\* the 11th call and later ones have pushed the oldest entries out
C13_Witness ==
    /\ currentTurn >= 12
    /\ Len(lastCommands) = 10
    /\ lastCommands[1].turn = currentTurn - 9
    /\ Passed[1] # lastCommands[1].command

\* the outcome the precedence of C14 gives
Outcome(command, gameOutput, prevState) ==
    LET room == ExtractedState(gameOutput, lastState).currentRoom
        roomChanged == IF prevState = Null THEN FALSE ELSE room # prevState[1].currentRoom
        taken == StartsWith(command, "TAKE") /\ "taken" \in gameOutput.marks
        opened == StartsWith(command, "OPEN") /\ "opened" \in gameOutput.marks
        info == command \in {<<"LOOK">>, <<"INVENTORY">>} \/ StartsWith(command, "EXAMINE")
    IN  IF "failure" \in gameOutput.marks THEN "failure"
        ELSE IF roomChanged \/ taken \/ opened \/ info THEN "progress"
        ELSE "no-change"

\* C14: updateAfterCommand records failure when the text matches the failure
\* pattern, whatever the command; otherwise progress when the room differs from
\* the previous snapshot, or TAKE is confirmed, or OPEN is confirmed, or the
\* command is LOOK, INVENTORY or EXAMINE; otherwise no-change.
C14_Classification ==
    [][\A command \in ClassifyCommands, gameOutput \in ClassifyTexts,
          prevState \in PrevStates :
          updateAfterCommand(command, gameOutput, prevState)
          => /\ Last(lastCommands').command = command
             /\ Last(lastCommands').result \in {"failure", "progress", "no-change"}
             /\ Last(lastCommands').result = Outcome(command, gameOutput, prevState)]_vars

\* a LOOK recorded as a failure after a TAKE recorded as progress
C14_Witness ==
    /\ Len(lastCommands) = 2
    /\ lastCommands[1] = [command |-> <<"TAKE", "KEY">>, result |-> "progress", turn |-> 1]
    /\ lastCommands[2] = [command |-> <<"LOOK">>, result |-> "failure", turn |-> 2]

-----------------------------------------------------------------------------
(* The orchestrator.                                                       *)

\* the invocations of handleStart / handleStep that are inside a turn
InTurn == {p \in 1..MaxRuns : runs[p].pc \in TurnPcs}

\* C15: under any interleaving of Start, Stop, Step and Reset, at most one
\* turn of the orchestrator is in progress at a time.
C15_OneTurnAtATime == Cardinality(InTurn) <= 1

\* C16: when updateAfterCommand records a command, that command has already been
\* sent and answered: the log ends with the command's entry and the engine's
\* response to it, and the recorded outcome is a failure exactly when that
\* response matches the failure pattern.
C16_UpdateAfterResponse ==
    [][currentTurn' = currentTurn + 1
       => LET entry == Last(lastCommands')
              log == WithoutThinking(gameLog)
              n == Len(log)
          IN  /\ n >= 2
              /\ log[n - 1].type = "command"
              /\ log[n - 1].content = entry.command
              /\ log[n].type = "game"
              /\ (entry.result = "failure") <=> ("failure" \in log[n].content.marks)]_vars

\* C17: when the reasoner's call for advice or for the summary fails, the turn
\* goes on: an invocation waiting for the summary or the advice moves on to the
\* advice or to the actor's decision, whatever the outcome of the call.
C17_AdvisoryFailureTolerated ==
    [][\A p \in 1..MaxRuns :
          runs[p].pc \in {"summary", "advice"} /\ runs'[p].pc # runs[p].pc
          => runs'[p].pc \in {"advice", "decide"}]_vars

\* C18: when the actor's call fails, the turn is reported with an error entry in
\* the log, no command entry is added and nothing is sent, the invocation ends
\* (no delay, no further turn) and isRunning becomes false.
C18_DecisionFailureHalts ==
    [][\A p \in 1..MaxRuns :
          /\ runs[p].pc = "decide"
          /\ runs'[p].pc # "decide"
          /\ currentTurn' = currentTurn
          => /\ gameLog' = Append(gameLog, LogEntry("game", TextError))
             /\ runs'[p] = IdleRun
             /\ ~isRunning'
             /\ turnsBegun' = turnsBegun
             /\ lastCommands' = lastCommands]_vars

\* a second turn that ended with the error entry after a first turn was played,
\* nobody having pressed Stop
C18_Witness ==
    /\ Len(gameLog) >= 5
    /\ Last(gameLog) = LogEntry("game", TextError)
    /\ gameLog[Len(gameLog) - 1].type = "thinking"
    /\ gameLog[Len(gameLog) - 2].type = "game"
    /\ gameLog[Len(gameLog) - 3].type = "command"
    /\ \A p \in 1..MaxRuns : runs[p] = IdleRun
    /\ ~isRunning
    /\ ~stopRef
    /\ currentTurn = 1

\* C19: the command a turn finalizes (the one updateAfterCommand records and
\* playTurn sends) is not a key of the forbidden map as the map stands when the
\* command is finalized, the forbids of the loop breaking included.
C19_FinalNotForbidden ==
    [][currentTurn' = currentTurn + 1
       => Last(lastCommands').command \notin DOMAIN forbiddenCommands]_vars

\* a turn that found a loop, whose actor answered a forbidden command, and that
\* is sending another command in its place
C19_Witness ==
    \E p \in 1..MaxRuns :
        /\ runs[p].pc = "send"
        /\ runs[p].loop[1].isLooping
        /\ Clean(runs[p].answer[1]) \in DOMAIN forbiddenCommands
        /\ runs[p].command[1] # Clean(runs[p].answer[1])
        /\ runs[p].command[1] \notin DOMAIN forbiddenCommands

\* the keys a step forbids: those it adds to the map or whose count it changes
Forbade ==
    {k \in DOMAIN forbiddenCommands' :
        IF k \in DOMAIN forbiddenCommands
        THEN forbiddenCommands'[k] # forbiddenCommands[k]
        ELSE TRUE}

\* C20: when a turn begins and detectLoops reports a loop, the orchestrator
\* forbids the implicated commands and no others: for 'repeat' the command that
\* appears twice in a row in the window, for 'alternation' the two alternating
\* commands.
C20_LoopForbidsImplicated ==
    [][turnsBegun' = turnsBegun + 1
       => LET loop == detectLoops
          IN  /\ loop.pattern = "repeat"
                 => /\ loop.suggestion[2] \in DOMAIN forbiddenCommands'
                    /\ Forbade \subseteq {loop.suggestion[2]}
              /\ loop.pattern = "alternation"
                 => /\ {loop.suggestion[2], loop.suggestion[3]}
                           \subseteq DOMAIN forbiddenCommands'
                    /\ Forbade \subseteq {loop.suggestion[2], loop.suggestion[3]}]_vars

-----------------------------------------------------------------------------
(* The memory over its life.                                               *)

\* C21: after reset(), whatever was recorded before, the memory is as the
\* constructor leaves it (turn 0, empty window, counters 0, no forbidden
\* command, no summary, no room, no lead, empty inventory, no snapshot) and
\* generateCandidates() returns the empty list.
C21_ResetIsFresh ==
    (probe # Null /\ probe[1].op = "reset")
    => Constructed /\ generateCandidates = <<>>

\* a reset made after MaxLifeTurns recorded turns
C21_Witness ==
    /\ probe # Null
    /\ probe[1].op = "reset"
    /\ probe[1].turns = MaxLifeTurns
    /\ Constructed

\* the result updateAfterCommand has just recorded is failure or no-change
RecordedNonProgress == Last(lastCommands').result \in {"failure", "no-change"}

\* C22 (as stated): every updateAfterCommand classified failure or no-change adds
\* 1 to the streak and every one classified progress sets it to 0; the stuck
\* count grows by 1 exactly on the calls that bring the streak to 3; and the
\* stuck count decreases only by reset().
C22_AsClaimed ==
    [][/\ currentTurn' = currentTurn + 1
          => /\ noChangeTurns' = IF RecordedNonProgress THEN noChangeTurns + 1 ELSE 0
             /\ stuckCount' = IF RecordedNonProgress /\ noChangeTurns' = StuckThreshold
                              THEN stuckCount + 1 ELSE stuckCount
       /\ stuckCount' < stuckCount => Constructed']_vars

\* C22 (amended): as above, but the stuck count grows by 1 on every call that
\* leaves the streak at 3 or more, not only on the call that brings it to 3.
C22_StreakAndStuck ==
    [][/\ currentTurn' = currentTurn + 1
          => /\ noChangeTurns' = IF RecordedNonProgress THEN noChangeTurns + 1 ELSE 0
             /\ stuckCount' = IF RecordedNonProgress /\ noChangeTurns' >= StuckThreshold
                              THEN stuckCount + 1 ELSE stuckCount
       /\ stuckCount' < stuckCount => Constructed']_vars

\* four calls without progress in a row: the third and the fourth were counted
C22_Witness ==
    /\ currentTurn = 4
    /\ noChangeTurns = 4
    /\ stuckCount = 2

\* the text leaves the player in the room of the snapshot held before the call
SameRoom(gameOutput) ==
    IF lastState = Null THEN TRUE
    ELSE ExtractedState(gameOutput, lastState).currentRoom = lastState[1].currentRoom

\* C23: a TAKE X whose text confirms it (and is no failure) puts X into the
\* global inventory; a DROP X whose text is no failure and leaves the player in
\* the same room takes X out of it.
C23_InventoryMaintained ==
    [][\A command \in LifeCommands, gameOutput \in LifeTexts :
          updateAfterCommand(command, gameOutput, getState)
          /\ "failure" \notin gameOutput.marks
          => /\ (command[1] = "TAKE" /\ "taken" \in gameOutput.marks)
                => Includes(globalInventory', Tail(command))
             /\ (command[1] = "DROP" /\ SameRoom(gameOutput))
                => ~Includes(globalInventory', Tail(command))]_vars

\* C24: in every room record the tried exits are among the known exits, and
\* the examined objects and the taken objects are among the objects observed
\* in that room.
C24_RoomSubsets ==
    \A i \in 1..Len(rooms) :
        /\ rooms[i].triedExits \subseteq Range(rooms[i].exits)
        /\ rooms[i].examinedObjects \subseteq Range(rooms[i].objects)
        /\ rooms[i].takenObjects \subseteq Range(rooms[i].objects)

\* the directions the caller has tried in the room named name
TriedIn(name) == {pair[2] : pair \in {t \in Tried : t[1] = name}}

\* C25: a movement command marks the exit of its own direction and no other
\* command marks any: in every room record there are as many tried exits as
\* there are directions (north, northeast, east, enter, ...) tried in that room.
C25_TriedExitPerDirection ==
    \A i \in 1..Len(rooms) :
        Cardinality(rooms[i].triedExits) = Cardinality(TriedIn(rooms[i].name))

RoomNamesOf(rs) == {rs[i].name : i \in 1..Len(rs)}

\* a step that loses a room, a lead or an inventory item
Shrinks ==
    \/ ~(RoomNamesOf(rooms) \subseteq RoomNamesOf(rooms'))
    \/ ~(Range(unresolvedLeads) \subseteq Range(unresolvedLeads'))
    \/ ~(Range(globalInventory) \subseteq Range(globalInventory'))

\* C26 (as stated): no updateAfterCommand call removes a room, a lead or an
\* inventory item; a step that removes one is a reset.
C26_AsClaimed ==
    [][/\ currentTurn' = currentTurn + 1 => ~Shrinks
       /\ Shrinks => Constructed']_vars

\* C26 (amended): an updateAfterCommand call removes no room and no lead, and
\* the only inventory item it can remove is X when the command is DROP X and is
\* recorded as progress; any other loss is a reset.
C26_GrowOnly ==
    [][/\ currentTurn' = currentTurn + 1
          => /\ RoomNamesOf(rooms) \subseteq RoomNamesOf(rooms')
             /\ Range(unresolvedLeads) \subseteq Range(unresolvedLeads')
             /\ \A item \in Range(globalInventory) \ Range(globalInventory') :
                    /\ Last(lastCommands').command = <<"DROP">> \o item
                    /\ Last(lastCommands').result = "progress"
       /\ (Shrinks /\ currentTurn' # currentTurn + 1) => Constructed']_vars

\* two rooms and a lead are known, and the key taken in the first room has
\* been dropped on arriving in the second
C26_Witness ==
    /\ Len(rooms) = 2
    /\ Len(unresolvedLeads) >= 1
    /\ Len(lastCommands) = 3
    /\ lastCommands[2] = [command |-> <<"TAKE", "KEY">>, result |-> "progress", turn |-> 2]
    /\ lastCommands[3] = [command |-> <<"DROP", "KEY">>, result |-> "progress", turn |-> 3]
    /\ globalInventory = <<>>

\* a step of extractState: the snapshot is set and no other field changes
ExtractStep ==
    /\ lastState' # Null
    /\ UNCHANGED <<currentTurn, lastCommands, stuckCount, noChangeTurns,
                   forbiddenCommands, gameSummary, lastSummaryTurn, rooms,
                   unresolvedLeads, globalInventory>>

\* C27: an extractState call leaves the results of getState, getUntriedExits,
\* getUnexaminedObjects, getCurrentRoomLeads and generateCandidates as they
\* were before the call.
C27_ExtractHasNoEffect ==
    [][ExtractStep =>
          /\ getState' = getState
          /\ getUntriedExits' = getUntriedExits
          /\ getUnexaminedObjects' = getUnexaminedObjects
          /\ getCurrentRoomLeads' = getCurrentRoomLeads
          /\ generateCandidates' = generateCandidates]_vars

-----------------------------------------------------------------------------
(* The long session.                                                       *)

\* C28: a summarization call is issued only when needsSummaryRefresh(5) holds,
\* and at least 5 turns after the summarization call before it, whatever that
\* call came to.
C28_SummaryAtInterval ==
    [][IssuesSummary =>
          /\ needsSummaryRefresh(SummaryInterval)
          /\ probe # Null => currentTurn - probe[1].turn >= SummaryInterval]_vars

\* the step goes on from the summary refresh to the reasoner or to the actor
\* in a turn without a room change and without a loop
ChoosesAdvice ==
    /\ runs[1].pc \in {"idle", "delay", "summary"}
    /\ runs'[1].pc \in {"advice", "decide"}
    /\ ~runs'[1].isNewLocation
    /\ ~runs'[1].loop[1].isLooping

\* C29: in a turn without a room change and without a loop the advisory call is
\* issued when the number of turns played is 3, 6, 9, 12, ..., and only then.
C29_AdviceEveryThirdTurn ==
    [][ChoosesAdvice =>
          (runs'[1].pc = "advice"
              <=> (currentTurn >= AdviceEvery /\ currentTurn % AdviceEvery = 0))]_vars

-----------------------------------------------------------------------------
(* Reset and the turns.                                                    *)

\* C30: Reset is never invoked while a turn is in progress, between the
\* turn's first step and its updateAfterCommand and send.
C30_ResetOutsideTurns == [][handleReset => InTurn = {}]_vars

-----------------------------------------------------------------------------
(* The stop flag.                                                          *)

\* the step starts an external call of invocation p: the summarization, the
\* advisory or the primary completion call, or the send to the engine
StartsCall(p) == runs'[p].pc \in TurnPcs /\ runs'[p].pc # runs[p].pc

\* C31: while the stop flag is set no turn starts a further external call and
\* the autoplay loop starts no new turn.
C31_StopCheckedAtEveryAwait ==
    [][(stopRef /\ stopRef') => \A p \in 1..MaxRuns : ~StartsCall(p)]_vars

-----------------------------------------------------------------------------
(* The game text of a turn.                                                *)

\* C32: the game text a turn consumes is the engine's latest output: the boot
\* text for the first turn, afterwards the response to the command sent in the
\* turn before.
C32_TurnReadsLatestText ==
    [][turnsBegun' = turnsBegun + 1
          => \A p \in 1..MaxRuns :
                 StartsCall(p) => runs'[p].gameOutput = LastGameOutput(gameLog)]_vars

-----------------------------------------------------------------------------
(* The game engine's wrapper.                                              *)

\* how many of the lines the engine has read are this command
Delivered(command) ==
    Cardinality({i \in 1..Len(zork.inputs) : zork.inputs[i] = command})

\* C33: with the game initialized in time, a sendCommand that returned without
\* giving up has delivered its command to the engine exactly once, and the text
\* it returned is the engine's output to that command, also after an earlier
\* sendCommand has given up on its timeout.
C33_OneResponsePerCommand ==
    \A i \in 2..Len(zork.results) :
        (~zork.results[1].timedOut /\ ~zork.results[i].timedOut)
            => /\ Delivered(zork.results[i].command) = 1
               /\ zork.results[i].text = <<zork.results[i].command>>

-----------------------------------------------------------------------------
(* The candidates of the policy.                                           *)

\* the exits tried in the current room, as updateRoomInfo keeps them
TriedHere == IF CurrentRoomIndex = 0 THEN {} ELSE rooms[CurrentRoomIndex].triedExits

\* C34: the score-0 fallback candidates are exactly the movement directions
\* tried before in the current room that are neither untried exits nor
\* forbidden; a direction never tried is not offered as a fallback.
C34_FallbackIsTried ==
    \A fallbacks \in {{c.command[1] : c \in {f \in Range(generateCandidates) : Phase(f) = 5}}} :
        /\ \A exit \in fallbacks : Spell(exit)[1] \in TriedHere
        /\ \A exit \in Range(MOVEMENT) :
               (/\ exit \in TriedHere
                /\ ~Includes(getUntriedExits, exit)
                /\ ~isForbidden(<<exit>>)
                /\ getState # Null) => exit \in fallbacks

\* the commands generateCandidates offers
Offered == {c.command : c \in Range(generateCandidates)}

\* C35: every object of the current room that is unexamined or untaken yields
\* an EXAMINE and a TAKE candidate unless the command is forbidden; an object
\* examined but not taken still yields its TAKE candidate.
C35_ObjectsYieldExamineAndTake ==
    CurrentRoomIndex # 0 =>
        \A room \in {rooms[CurrentRoomIndex]}, offered \in {Offered} :
            \A obj \in Range(room.objects) :
                (obj \notin room.examinedObjects \/ obj \notin room.takenObjects)
                    => /\ isForbidden(<<"EXAMINE">> \o obj) \/ (<<"EXAMINE">> \o obj) \in offered
                       /\ isForbidden(<<"TAKE">> \o obj) \/ (<<"TAKE">> \o obj) \in offered

-----------------------------------------------------------------------------
(* The leads.                                                              *)

DetectedTypes == {"locked", "container", "puzzle"}

\* the candidates the hazard and notable branches of actionsForLead give
HazardOrNotable ==
    IF getState = Null THEN <<>>
    ELSE LeadCandidates(SelectSeq(getCurrentRoomLeads,
                                  LAMBDA l : l.type \notin DetectedTypes),
                        getState[1])

\* C36: every unresolved lead has type locked, container or puzzle, and the
\* hazard and notable branches of the candidate generation contribute nothing.
C36_LeadTypes ==
    /\ \A lead \in Range(unresolvedLeads) : lead.type \in DetectedTypes
    /\ HazardOrNotable = <<>>

\* a text naming a dark place has been read in a room that has leads of the
\* three types, and the leads give candidates
C36_Witness ==
    /\ getState # Null
    /\ "dark" \in Range(getState[1].notableClues)
    /\ {l.type : l \in Range(getCurrentRoomLeads)} = DetectedTypes
    /\ \E c \in Range(generateCandidates) : Phase(c) = 1

\* C37: the list of generateCandidates() holds no two candidates with the same
\* command.
C37_NoDuplicateCommands ==
    \A cands \in {generateCandidates} :
        \A i, j \in 1..Len(cands) : cands[i].command = cands[j].command => i = j

-----------------------------------------------------------------------------
(* The window and the engine.                                              *)

\* C38: a command that updateAfterCommand records in the window is sent to the
\* game engine: the turn that records it goes on to send it, whenever Stop is
\* pressed.
C38_RecordedIsSent ==
    [][currentTurn' = currentTurn + 1
          => \E p \in 1..MaxRuns :
                 /\ runs[p].pc = "decide"
                 /\ runs'[p].pc = "send"
                 /\ runs'[p].command = Some(Last(lastCommands').command)]_vars

-----------------------------------------------------------------------------
(* Repeated commands.                                                      *)

\* the commands sent to the engine, in order
Sent ==
    LET entries == SelectSeq(gameLog, LAMBDA e : e.type = "command")
    IN  [i \in 1..Len(entries) |-> entries[i].content]

\* C39: the orchestrator never sends the same command in three consecutive
\* turns.
C39_NoThirdRepeat ==
    \A sent \in {Sent} :
        \A i \in 3..Len(sent) : ~(sent[i] = sent[i - 1] /\ sent[i - 1] = sent[i - 2])

\* the actor has answered for the third time in a row the command sent in the
\* two turns before, and another command has been sent in its place
C39_Witness ==
    /\ runs[1].pc = "send"
    /\ Len(Sent) >= 3
    /\ Sent[Len(Sent) - 1] = Sent[Len(Sent) - 2]
    /\ runs[1].answer = Some(Sent[Len(Sent) - 1])
    /\ runs[1].command # runs[1].answer
    /\ Sent[Len(Sent)] = runs[1].command[1]

-----------------------------------------------------------------------------
(* A turn that fails.                                                      *)

\* C40: a turn whose primary decision call throws leaves the memory as it was
\* when the turn started: the snapshot is the one getLLMCommand read as
\* prevState at its start, and the failing step changes nothing else.
C40_FailedTurnLeavesMemory ==
    [][\A p \in 1..MaxRuns :
           DecideFails(p) => /\ lastState' = runs[p].prevState
                             /\ UNCHANGED memory]_vars

=============================================================================
